---- MODULE Spec2Model ----
(***************************************************************************)
(* GCompare: the dual-file loading and side-assignment state machine of    *)
(* src/src/hooks/useFileHandlers.ts (the useFileHandlers hook).            *)
(*                                                                         *)
(* The hook runs on one UI thread.  Every handler runs synchronously up    *)
(* to its first await; the awaited dialog or file read returns later as a  *)
(* discrete event.  Each action below is one such uninterrupted stretch.   *)
(***************************************************************************)
EXTENDS Integers, Sequences, FiniteSets, Bags, TLC

VARIABLES
    text,            \* originalText / modifiedText (useState)
    path,            \* originalPath / modifiedPath (useState)
    openSlot,        \* openSlotRef.current
    pathState,       \* pathStateRef.current
    openQueue,       \* openQueueRef.current
    openQueueTimer,  \* openQueueTimerRef.current: a timer id or null
    timers,          \* the window's pending timeouts: id -> time since it was set
    sinceArrival,    \* time since enqueueOpenPaths last took a path (capped)
    files,           \* the file system: path -> bytes
    ops,             \* the async calls suspended at an await (a bag)
    status,          \* the showStatus call made by the last step (NoStatus: none)
    returned,        \* history: the call resumed by the last step, with its outcome
    trace,           \* history: the sides taken by the opens so far (see noteStarted)
    autoRun,         \* history: the latest consecutive pointer-decided opens
    historySourceSide, \* App: historySourceSide (useState)
    historyRepoRoot, \* App: historyRepoRoot (useState)
    fetching,        \* App: the fetchHistory calls suspended at their await
                     \* (a bag), each with the historyTargetPath it asked for
    historyEntries,  \* App: historyEntries (useState)
    historyError,    \* App: historyError (useState)
    lastHistoryPath, \* App: lastHistoryPathRef.current
    historyDeps,     \* App: the dependencies the history effect last ran for
    compares,        \* App: the handleCompareCommit calls suspended at their await
    recentFiles,     \* useRecents: recents.files
    effectPath,      \* App: the paths the recent-files effects last ran for
    focusedSide,     \* App: focusedSideRef.current
    editorMounted,   \* App: diffEditorRef.current is an editor
    writes,          \* App: the writeTextFile calls under way (a bag)
    statusMessage,   \* useStatusMessage: statusMessage (useState)
    statusTimerRef,  \* useStatusMessage: timerRef.current, a timer id or null
    statusTimers,    \* the pending timeouts of useStatusMessage: id -> its
                     \* delay and the time since it was set
    lastShown,       \* history: the latest showStatus call taken by
                     \* useStatusMessage, the message it replaced and the
                     \* time since the call (capped at its timeout)
    active,          \* App: the flag of the listener effect (the component
                     \* is mounted)
    discarded,       \* history: the queue and the timeout that the unmount
                     \* found and discarded
    historyLoadingHash, \* App: historyLoadingHash (useState)
    recentProjects,  \* useRecents: recents.projects
    recentsLoaded,   \* useRecents: getRecents() has returned
    lastAdded,       \* history: the path of the latest addRecentFile call
    diffChanges,     \* App: diffChanges.length (useState)
    diffIndex        \* App: diffIndex (useState)

vars ==
    <<text, path, openSlot, pathState, openQueue, openQueueTimer, timers,
      sinceArrival, files, ops, status, returned, trace, autoRun,
      historySourceSide, historyRepoRoot, fetching, compares, recentFiles,
      effectPath, focusedSide, editorMounted, writes,
      statusMessage, statusTimerRef, statusTimers, lastShown,
      historyEntries, historyError, lastHistoryPath, historyDeps, active,
      discarded, historyLoadingHash, recentProjects, recentsLoaded,
      lastAdded, diffChanges, diffIndex>>

history == <<trace, autoRun>>

\* the editor of App.tsx and the saves issued from it
editor == <<focusedSide, editorMounted, writes>>

\* the state of useStatusMessage
sink == <<statusMessage, statusTimerRef, statusTimers, lastShown>>

\* the history list of App.tsx
historyList == <<historyEntries, historyError, lastHistoryPath, historyDeps>>

\* the rest of the state of useRecents
recentsMore == <<recentProjects, recentsLoaded, lastAdded>>

\* the diff navigation of App.tsx
diff == <<diffChanges, diffIndex>>

\* whether App is mounted
mount == <<active, discarded>>

\* the state of App.tsx, useRecents and useStatusMessage outside the hook
app ==
    <<historySourceSide, historyRepoRoot, fetching, compares, recentFiles,
      effectPath, editor, sink, historyList, mount, historyLoadingHash,
      recentsMore, diff>>

-----------------------------------------------------------------------------
(* Bounds of the model *)

MaxOps == 2

MaxQueue == 3

MaxTrace == 6

\* the most line changes the diff editor reports
MaxChanges == 9

\* the longest file, in bytes, whose content is drawn
MaxLen == 3

-----------------------------------------------------------------------------
(* Values *)

Side == {"original", "modified"}

Null == "<null>"

Other(side) == IF side = "original" THEN "modified" ELSE "original"

\* a truthiness test that every value passes
Boolean_Always(value) == TRUE

Boolean(value) == value # Null /\ value # ""

Min(a, b) == IF a < b THEN a ELSE b

\* openQueueTimerRef.current === null (the ids of timeouts are positive)
NoTimer == 0

\* window.setTimeout(flushOpenQueue, 250)
OpenDelay == 250

\* the grain of time: the instants told apart are 0, 125 and 250 after an event
Quantum == OpenDelay \div 2

-----------------------------------------------------------------------------
(* The collaborators: the file system behind readFile *)

\* a threshold one byte higher
largeFileThreshold_PlusOne == 2097152 + 1

largeFileThreshold == 2097152

FileA == "a.txt"

FileB == "b.txt"

Paths == {FileA, FileB}

FileBytes(p) ==
    IF p = FileA THEN <<"a", "CR", "LF", "b">> ELSE <<"c", "CR", "d", "xFF">>

FileSize(p) ==
    IF p = FileA THEN largeFileThreshold - 1 ELSE largeFileThreshold

\* TextDecoder("utf-8", {fatal: false}): an invalid byte becomes U+FFFD
decode(bytes) ==
    [i \in 1..Len(bytes) |-> IF bytes[i] = "xFF" THEN "uFFFD" ELSE bytes[i]]

\* a replacement of each CR by itself: .replace(/\r/g, "\n")
replaceLineEndings_EachCR(s) ==
    [i \in 1..Len(s) |-> IF s[i] = "CR" THEN "LF" ELSE s[i]]

\* .replace(/\r\n?/g, "\n")
RECURSIVE replaceLineEndings(_)
replaceLineEndings(s) ==
    IF s = <<>> THEN <<>>
    ELSE IF Head(s) = "CR"
         THEN IF Len(s) >= 2 /\ s[2] = "LF"
              THEN <<"LF">> \o replaceLineEndings(SubSeq(s, 3, Len(s)))
              ELSE <<"LF">> \o replaceLineEndings(Tail(s))
         ELSE <<Head(s)>> \o replaceLineEndings(Tail(s))

initialOriginalText == <<"o">>

initialModifiedText == <<"m">>

RevisionText == <<"r", "LF">>

VirtualLabel == "git:c1:a.txt"

\* what callers hand to setSideContent: a revision under its label, a working
\* file under its path, or untitled text
SetInputs ==
    { <<RevisionText, VirtualLabel>>,
      <<replaceLineEndings(decode(FileBytes(FileA))), FileA>>,
      <<RevisionText, Null>> }

\* what callers hand to applyPaths and enqueueOpenPaths
PathLists ==
    { <<>>, <<"">>, <<FileA>>, <<FileB>>, <<FileA, FileB>>, <<FileB, "", FileA>>,
      <<FileB, FileA, FileA>> }

-----------------------------------------------------------------------------
(* Status messages *)

NoStatus == [message |-> Null, loaded |-> 0, large |-> <<>>, timeout |-> 0]

defaultTimeout == 2000

\* no showStatus call was taken yet
NoShown == [message |-> Null, timeout |-> 0, elapsed |-> 0, replaced |-> Null]

\* showLoadedStatus(size)
showLoadedStatus(size) ==
    IF size >= largeFileThreshold
    THEN [message |-> "File loaded. Large.", loaded |-> 1, large |-> <<>>,
          timeout |-> 2600]
    ELSE [message |-> "File loaded.", loaded |-> 1, large |-> <<>>,
          timeout |-> defaultTimeout]

FailedFile ==
    [message |-> "Failed to load file.", loaded |-> 0, large |-> <<>>,
     timeout |-> 2500]

FailedFiles ==
    [message |-> "Failed to load files.", loaded |-> 0, large |-> <<>>,
     timeout |-> 2500]

SideLabel(side) == IF side = "original" THEN "Left" ELSE "Right"

\* applyPaths reporting a failure unless both loads succeeded
applyStatus_AllOrNothing(source, loaded, largeSides) ==
    IF loaded > 1
    THEN [message |-> IF source = "drop" THEN "Dropped" ELSE "Loaded",
          loaded |-> loaded, large |-> largeSides, timeout |-> 2600]
    ELSE FailedFiles

\* the tail of applyPaths: one status message for the whole call
applyStatus(source, loaded, largeSides) ==
    IF loaded > 0
    THEN [message |-> IF source = "drop" THEN "Dropped" ELSE "Loaded",
          loaded |-> loaded, large |-> largeSides, timeout |-> 2600]
    ELSE FailedFiles

-----------------------------------------------------------------------------
(* Slot resolution and reservation *)

\* resolveOpenSide with the pointer advanced on the fill-the-empty-slot paths too
resolveOpenSide_AdvanceOnFill(state, slot) ==
    IF ~state["original"] /\ state["modified"]
    THEN [side |-> "original", slot |-> Other(slot)]
    ELSE IF state["original"] /\ ~state["modified"]
    THEN [side |-> "modified", slot |-> Other(slot)]
    ELSE [side |-> slot, slot |-> Other(slot)]

\* resolveOpenSide with the two occupancy tests inverted
resolveOpenSide_FillOccupied(state, slot) ==
    IF state["original"] /\ ~state["modified"]
    THEN [side |-> "original", slot |-> slot]
    ELSE IF ~state["original"] /\ state["modified"]
    THEN [side |-> "modified", slot |-> slot]
    ELSE [side |-> slot, slot |-> Other(slot)]

\* resolveOpenSide with the pointer never flipped
resolveOpenSide_NoFlip(state, slot) ==
    IF ~state["original"] /\ state["modified"]
    THEN [side |-> "original", slot |-> slot]
    ELSE IF state["original"] /\ ~state["modified"]
    THEN [side |-> "modified", slot |-> slot]
    ELSE [side |-> slot, slot |-> slot]

\* resolveOpenSide(): the side returned and the pointer left behind
resolveOpenSide(state, slot) ==
    IF ~state["original"] /\ state["modified"]
    THEN [side |-> "original", slot |-> slot]
    ELSE IF state["original"] /\ ~state["modified"]
    THEN [side |-> "modified", slot |-> slot]
    ELSE [side |-> slot, slot |-> Other(slot)]

\* the side taken from the pointer even when one is named
chooseSide_IgnorePreferred(preferredSide, state, slot) ==
    resolveOpenSide(state, slot)

\* preferredSide ?? resolveOpenSide()
chooseSide(preferredSide, state, slot) ==
    IF preferredSide # Null
    THEN [side |-> preferredSide, slot |-> slot]
    ELSE resolveOpenSide(state, slot)

\* reserveSide that reports wasEmpty and marks nothing
reserveSide_NoMark(state, side) ==
    [wasEmpty |-> ~state[side], state |-> state]

\* reserveSide(side): wasEmpty and the flags left behind
reserveSide(state, side) ==
    [wasEmpty |-> ~state[side], state |-> [state EXCEPT ![side] = TRUE]]

\* rollback on every failure, whether or not the slot was empty
rollback_Always(state, side, ok, wasEmpty) ==
    IF ~ok THEN [state EXCEPT ![side] = FALSE] ELSE state

\* no rollback at all
rollback_Never(state, side, ok, wasEmpty) == state

\* if (!result.ok && sideWasEmpty) pathStateRef.current[side] = false
rollback(state, side, ok, wasEmpty) ==
    IF ~ok /\ wasEmpty THEN [state EXCEPT ![side] = FALSE] ELSE state

\* the two sides of a pair with the preferred side ignored
pairSides_IgnorePreferred(preferredSide) == <<"original", "modified">>

\* firstSide = preferredSide ?? "original"; secondSide = the other one
pairSides(preferredSide) ==
    LET firstSide == IF preferredSide # Null THEN preferredSide ELSE "original"
    IN <<firstSide, Other(firstSide)>>

\* paths.filter(Boolean)
filterBoolean(paths) == SelectSeq(paths, Boolean)

\* applyPaths without the slice
filterPaths_NoSlice(paths) == filterBoolean(paths)

\* paths.filter(Boolean).slice(0, 2)
filterPaths(paths) ==
    LET kept == filterBoolean(paths) IN SubSeq(kept, 1, Min(2, Len(kept)))

-----------------------------------------------------------------------------
(* Suspended calls *)

\* given is the paths argument as passed, paths the ones the call loads
Op(kind, pc, source, preferredSide, paths, sides, wasEmpty, results, given) ==
    [kind |-> kind, pc |-> pc, source |-> source, preferredSide |-> preferredSide,
     paths |-> paths, sides |-> sides, wasEmpty |-> wasEmpty, results |-> results,
     given |-> given]

InFlight == BagToSet(ops)

CanStart == BagCardinality(ops) < MaxOps

Add(op) == ops (+) SetToBag({op})

Remove(op) == ops (-) SetToBag({op})

\* a single file opened with no explicit side
IsAuto(op) == Len(op.sides) = 1 /\ op.preferredSide = Null

\* the calls this step has started
Started == {op \in BagToSet(ops') : CopiesIn(op, ops') > CopiesIn(op, ops)}

-----------------------------------------------------------------------------
(* History variables.                                                      *)
(* returned is the suspended call that the last step resumed, with the     *)
(* outcome of the awaited read or dialog filled in (NoCall when the step   *)
(* resumed none).                                                          *)
(* trace lists the sides taken by the opens made so far as long as every   *)
(* operation since construction was a direct single-file open with no      *)
(* explicit side, issued with nothing else in flight, that loaded; any     *)
(* other step voids it.                                                    *)
(* autoRun holds the latest one or two consecutive operations that were    *)
(* single-file opens with no explicit side, resolved with both slots       *)
(* occupied and nothing in flight: the side each took and whether it came  *)
(* through the queue.  Any other operation empties it.                     *)

\* nothing discarded: App is mounted
NoDiscard == [queue |-> <<>>, timer |-> NoTimer]

NoCall == Op(Null, Null, Null, Null, <<>>, <<>>, <<>>, <<>>, <<>>)

Void == <<"void">>

noteStarted(queued) ==
    /\ returned' = NoCall
    /\ IF Started = {}
       THEN UNCHANGED history
       ELSE LET op == CHOOSE o \in Started : TRUE
                alone == ops = EmptyBag
                entry == [side |-> op.sides[1], queued |-> queued]
            IN /\ trace' = IF IsAuto(op) /\ alone /\ ~queued /\ trace # Void
                              /\ Len(trace) < MaxTrace
                           THEN Append(trace, op.sides[1]) ELSE Void
               /\ autoRun' = IF IsAuto(op) /\ alone /\ pathState["original"]
                                /\ pathState["modified"]
                             THEN IF autoRun = <<>> THEN <<entry>>
                                  ELSE <<autoRun[Len(autoRun)], entry>>
                             ELSE <<>>

noteReturned(op, i, outcome) ==
    /\ returned' = [op EXCEPT !.results[i] = outcome]
    /\ trace' = IF outcome = "ok" THEN trace ELSE Void
    /\ autoRun' = autoRun

noteOther ==
    /\ returned' = NoCall
    /\ trace' = Void
    /\ autoRun' = <<>>

-----------------------------------------------------------------------------
\* the state after the first render; the files are those of the given disk
InitWith(disk) ==
    /\ files = disk
    /\ text = [side \in Side |->
                 IF side = "original" THEN initialOriginalText
                 ELSE initialModifiedText]
    /\ path = [side \in Side |-> Null]
    /\ openSlot = "original"
    /\ pathState = [side \in Side |-> FALSE]
    /\ openQueue = <<>>
    /\ openQueueTimer = NoTimer
    /\ timers = <<>>
    /\ sinceArrival = OpenDelay
    /\ ops = EmptyBag
    /\ historySourceSide = "original"
    /\ historyRepoRoot = Null
    /\ fetching = EmptyBag
    /\ historyEntries = <<>>
    /\ historyError = Null
    /\ lastHistoryPath = Null
    /\ historyDeps = <<>>
    /\ compares = {}
    /\ recentFiles = <<>>
    /\ effectPath = [side \in Side |-> Null]
    /\ focusedSide = Null
    /\ editorMounted = FALSE
    /\ writes = EmptyBag
    /\ statusMessage = Null
    /\ statusTimerRef = NoTimer
    /\ statusTimers = <<>>
    /\ lastShown = NoShown
    /\ active = TRUE
    /\ discarded = NoDiscard
    /\ historyLoadingHash = Null
    /\ recentProjects = <<>>
    /\ recentsLoaded = FALSE
    /\ lastAdded = Null
    /\ diffChanges = 0
    /\ diffIndex = 0
    /\ status = NoStatus
    /\ trace = <<>>
    /\ returned = NoCall
    /\ autoRun = <<>>

Init == InitWith([p \in Paths |-> FileBytes(p)])

-----------------------------------------------------------------------------
(* loadFileToSide, from the return of readFile on *)

\* a load that stores the text it read and leaves the path
loadFileToSide_TextOnly(p, side, ok) ==
    IF ok
    THEN /\ path' = path
         /\ text' = [text EXCEPT ![side] = replaceLineEndings(decode(files[p]))]
    ELSE UNCHANGED <<path, text>>

\* a load that stores only into a slot that shows no file
loadFileToSide_FirstWins(p, side, ok) ==
    IF ok /\ path[side] = Null
    THEN /\ path' = [path EXCEPT ![side] = p]
         /\ text' = [text EXCEPT ![side] = replaceLineEndings(decode(files[p]))]
    ELSE UNCHANGED <<path, text>>

loadFileToSide(p, side, ok) ==
    IF ok
    THEN /\ path' = [path EXCEPT ![side] = p]
         /\ text' = [text EXCEPT ![side] = replaceLineEndings(decode(files[p]))]
    ELSE UNCHANGED <<path, text>>

-----------------------------------------------------------------------------
(* applyPaths, up to its await *)

applyPaths(paths, source, preferredSide) ==
    LET filtered == filterPaths(paths) IN
    IF Len(filtered) = 0
    THEN UNCHANGED <<openSlot, pathState, ops>>
    ELSE IF Len(filtered) = 1
    THEN LET chosen == chooseSide(preferredSide, pathState, openSlot)
             reserved == reserveSide(pathState, chosen.side)
         IN /\ openSlot' = chosen.slot
            /\ pathState' = reserved.state
            /\ ops' = Add(Op("applyPaths", "load", source, preferredSide, filtered,
                             <<chosen.side>>, <<reserved.wasEmpty>>, <<"pending">>,
                             paths))
    ELSE LET firstSide == pairSides(preferredSide)[1]
             secondSide == pairSides(preferredSide)[2]
             first == reserveSide(pathState, firstSide)
             second == reserveSide(first.state, secondSide)
         IN /\ openSlot' = openSlot
            /\ pathState' = second.state
            /\ ops' = Add(Op("applyPaths", "load", source, preferredSide, filtered,
                             <<firstSide, secondSide>>,
                             <<first.wasEmpty, second.wasEmpty>>,
                             <<"pending", "pending">>, paths))

ApplyPaths(paths, source, preferredSide) ==
    /\ CanStart
    /\ applyPaths(paths, source, preferredSide)
    /\ noteStarted(FALSE)
    /\ status' = NoStatus
    /\ UNCHANGED <<text, path, openQueue, openQueueTimer,
                 timers, sinceArrival, files, app>>

\* the single-path branch of applyPaths, from the return of loadFileToSide on
ApplyPathsLoaded(op, ok) ==
    /\ op \in InFlight
    /\ op.kind = "applyPaths"
    /\ Len(op.sides) = 1
    /\ LET side == op.sides[1]
           large == IF ok /\ FileSize(op.paths[1]) >= largeFileThreshold
                    THEN <<SideLabel(side)>> ELSE <<>>
       IN /\ loadFileToSide(op.paths[1], side, ok)
          /\ pathState' = rollback(pathState, side, ok, op.wasEmpty[1])
          /\ status' = applyStatus(op.source, IF ok THEN 1 ELSE 0, large)
    /\ ops' = Remove(op)
    /\ noteReturned(op, 1, IF ok THEN "ok" ELSE "fail")
    /\ UNCHANGED <<openSlot, openQueue, openQueueTimer,
                 timers, sinceArrival, files, app>>

\* the two-path branch: one of the two loadFileToSide calls returns; the call
\* resumes after Promise.all once both have
ApplyPathsPairLoaded(op, i, ok) ==
    /\ op \in InFlight
    /\ op.kind = "applyPaths"
    /\ Len(op.sides) = 2
    /\ i \in 1..2
    /\ op.results[i] = "pending"
    /\ loadFileToSide(op.paths[i], op.sides[i], ok)
    /\ LET results == [op.results EXCEPT ![i] = IF ok THEN "ok" ELSE "fail"]
           isLarge(k) == results[k] = "ok" /\ FileSize(op.paths[k]) >= largeFileThreshold
           largeSides == (IF isLarge(1) THEN <<SideLabel(op.sides[1])>> ELSE <<>>)
                         \o (IF isLarge(2) THEN <<SideLabel(op.sides[2])>> ELSE <<>>)
           loaded == Cardinality({k \in 1..2 : results[k] = "ok"})
       IN IF results[3 - i] = "pending"
          THEN /\ ops' = Add([op EXCEPT !.results = results]) (-) SetToBag({op})
               /\ pathState' = pathState
               /\ status' = NoStatus
          ELSE /\ ops' = Remove(op)
               /\ pathState' =
                    rollback(rollback(pathState, op.sides[1], results[1] = "ok",
                                      op.wasEmpty[1]),
                             op.sides[2], results[2] = "ok", op.wasEmpty[2])
               /\ status' = applyStatus(op.source, loaded, largeSides)
    /\ noteReturned(op, i, IF ok THEN "ok" ELSE "fail")
    /\ UNCHANGED <<openSlot, openQueue, openQueueTimer,
                 timers, sinceArrival, files, app>>

-----------------------------------------------------------------------------
(* The OS-launch queue *)

\* window.setTimeout: the id of the new timeout, the least one not pending
setTimeout(pending) ==
    CHOOSE id \in 1..(Cardinality(DOMAIN pending) + 1) :
       /\ id \notin DOMAIN pending
       /\ \A other \in 1..(id - 1) : other \in DOMAIN pending

\* window.clearTimeout(id)
clearTimeout(pending, id) == [t \in DOMAIN pending \ {id} |-> pending[t]]

\* enqueueOpenPaths with a timeout set on every arrival
armTimer_Always(timerRef, pending) ==
    LET id == setTimeout(pending)
    IN [ref |-> id,
        pending |-> [t \in DOMAIN pending \cup {id} |->
                       IF t = id THEN 0 ELSE pending[t]]]

\* if (openQueueTimerRef.current === null) openQueueTimerRef.current = setTimeout(..)
armTimer(timerRef, pending) ==
    IF timerRef = NoTimer
    THEN LET id == setTimeout(pending)
         IN [ref |-> id,
             pending |-> [t \in DOMAIN pending \cup {id} |->
                            IF t = id THEN 0 ELSE pending[t]]]
    ELSE [ref |-> timerRef, pending |-> pending]

\* enqueueOpenPaths with the queue replaced by the arrival
concat_Replace(queue, next) == next

\* openQueueRef.current.concat(next)
concat(queue, next) == queue \o next

\* the pointer reset of enqueueOpenPaths made on every arrival
resetSlot_Always(queue, timerRef, slot) == "original"

\* if (queue.length === 0 && timer === null) openSlotRef.current = "original"
resetSlot(queue, timerRef, slot) ==
    IF Len(queue) = 0 /\ timerRef = NoTimer THEN "original" ELSE slot

\* time passes; a timeout fires no later than its delay
Tick ==
    /\ \A t \in DOMAIN timers : timers[t] + Quantum <= OpenDelay
    /\ DOMAIN timers # {} \/ sinceArrival < OpenDelay
    /\ timers' = [t \in DOMAIN timers |-> timers[t] + Quantum]
    /\ sinceArrival' = Min(sinceArrival + Quantum, OpenDelay)
    /\ status' = NoStatus
    /\ returned' = NoCall
    /\ UNCHANGED <<text, path, openSlot, pathState, openQueue, openQueueTimer,
                   files, app, ops, history>>

\* timeout t fires: flushOpenQueue
FlushOpenQueue(t) ==
    /\ t \in DOMAIN timers
    /\ timers[t] = OpenDelay
    /\ CanStart
    /\ openQueue' = <<>>
    /\ timers' = IF openQueueTimer # NoTimer
                 THEN clearTimeout(clearTimeout(timers, t), openQueueTimer)
                 ELSE clearTimeout(timers, t)
    /\ openQueueTimer' = NoTimer
    /\ IF Len(openQueue) > 0
       THEN applyPaths(openQueue, "open", Null)
       ELSE UNCHANGED <<openSlot, pathState, ops>>
    /\ noteStarted(TRUE)
    /\ status' = NoStatus
    /\ UNCHANGED <<text, path, sinceArrival, files, app>>

EnqueueOpenPaths(paths) ==
    LET next == filterBoolean(paths) IN
    /\ Len(openQueue) + Len(next) <= MaxQueue
    /\ IF Len(next) = 0
       THEN UNCHANGED <<openSlot, openQueue, openQueueTimer, timers, sinceArrival,
                        history>>
       ELSE LET armed == armTimer(openQueueTimer, timers)
            IN /\ openSlot' = resetSlot(openQueue, openQueueTimer, openSlot)
               /\ openQueue' = concat(openQueue, next)
               /\ openQueueTimer' = armed.ref
               /\ timers' = armed.pending
               /\ sinceArrival' = 0
               /\ trace' = Void
               /\ autoRun' = autoRun
    /\ status' = NoStatus
    /\ returned' = NoCall
    /\ UNCHANGED <<text, path, pathState, files, app, ops>>

-----------------------------------------------------------------------------
(* openFilePath *)

OpenFilePath(p, preferredSide) ==
    /\ CanStart
    /\ IF ~Boolean(p)
       THEN UNCHANGED <<openSlot, pathState, ops>>
       ELSE LET chosen == chooseSide(preferredSide, pathState, openSlot)
                reserved == reserveSide(pathState, chosen.side)
            IN /\ openSlot' = chosen.slot
               /\ pathState' = reserved.state
               /\ ops' = Add(Op("openFilePath", "load", Null, preferredSide, <<p>>,
                                <<chosen.side>>, <<reserved.wasEmpty>>, <<"pending">>,
                                <<p>>))
    /\ noteStarted(FALSE)
    /\ status' = NoStatus
    /\ UNCHANGED <<text, path, openQueue, openQueueTimer,
                 timers, sinceArrival, files, app>>

\* from the return of loadFileToSide on (openFilePath and handleOpenFile alike)
FileLoaded(op, ok) ==
    /\ op \in InFlight
    /\ op.kind \in {"openFilePath", "handleOpenFile"}
    /\ op.pc = "load"
    /\ loadFileToSide(op.paths[1], op.sides[1], ok)
    /\ pathState' = rollback(pathState, op.sides[1], ok, op.wasEmpty[1])
    /\ status' = IF ok THEN showLoadedStatus(FileSize(op.paths[1])) ELSE FailedFile
    /\ ops' = Remove(op)
    /\ noteReturned(op, 1, IF ok THEN "ok" ELSE "fail")
    /\ UNCHANGED <<openSlot, openQueue, openQueueTimer,
                 timers, sinceArrival, files, app>>

-----------------------------------------------------------------------------
(* handleOpenFile *)

HandleOpenFile(side) ==
    /\ CanStart
    /\ LET reserved == reserveSide(pathState, side)
       IN /\ pathState' = reserved.state
          /\ ops' = Add(Op("handleOpenFile", "dialog", Null, side, <<>>,
                           <<side>>, <<reserved.wasEmpty>>, <<"pending">>, <<>>))
    /\ noteStarted(FALSE)
    /\ status' = NoStatus
    /\ UNCHANGED <<text, path, openSlot, openQueue, openQueueTimer,
                 timers, sinceArrival, files, app>>

\* the dialog is dismissed: !selection || Array.isArray(selection)
DialogCancelled(op) ==
    /\ op \in InFlight
    /\ op.pc = "dialog"
    /\ pathState' = rollback(pathState, op.sides[1], FALSE, op.wasEmpty[1])
    /\ ops' = Remove(op)
    /\ status' = NoStatus
    /\ noteReturned(op, 1, "cancelled")
    /\ UNCHANGED <<text, path, openSlot, openQueue, openQueueTimer,
                 timers, sinceArrival, files, app>>

\* the dialog returns one path: loadFileToSide(selection, side) is issued
DialogSelected(op, selection) ==
    /\ op \in InFlight
    /\ op.pc = "dialog"
    /\ ops' = Add([op EXCEPT !.pc = "load", !.paths = <<selection>>])
                (-) SetToBag({op})
    /\ status' = NoStatus
    /\ returned' = [op EXCEPT !.results[1] = "selected"]
    /\ UNCHANGED <<text, path, openSlot, pathState, openQueue, openQueueTimer,
                   timers, sinceArrival, files, app, history>>

\* open() rejects: the catch block
DialogFailed(op) ==
    /\ op \in InFlight
    /\ op.pc = "dialog"
    /\ pathState' = rollback(pathState, op.sides[1], FALSE, op.wasEmpty[1])
    /\ status' = FailedFile
    /\ ops' = Remove(op)
    /\ noteReturned(op, 1, "error")
    /\ UNCHANGED <<text, path, openSlot, openQueue, openQueueTimer,
                 timers, sinceArrival, files, app>>

-----------------------------------------------------------------------------
(* setSideContent *)

\* setSideContent marking the slot occupied whatever the label
SetSideContent_AlwaysOccupied(side, contents, p) ==
    /\ text' = [text EXCEPT ![side] = contents]
    /\ path' = [path EXCEPT ![side] = p]
    /\ pathState' = [pathState EXCEPT ![side] = TRUE]
    /\ noteOther
    /\ status' = NoStatus
    /\ UNCHANGED <<openSlot, openQueue, openQueueTimer, timers, sinceArrival,
                   files, app, ops>>

SetSideContent(side, contents, p) ==
    /\ text' = [text EXCEPT ![side] = contents]
    /\ path' = [path EXCEPT ![side] = p]
    /\ pathState' = [pathState EXCEPT ![side] = Boolean(p)]
    /\ noteOther
    /\ status' = NoStatus
    /\ UNCHANGED <<openSlot, openQueue, openQueueTimer, timers, sinceArrival,
                   files, app, ops>>

-----------------------------------------------------------------------------
(* App.tsx: history comparisons, the history source side, the recent files *)

MAX_RECENT_FILES == 12

gitVirtualPathPrefix == "git:"

p4VirtualPathPrefix == "p4:"

vcsVirtualPathPrefixes == {gitVirtualPathPrefix, p4VirtualPathPrefix}

\* String.prototype.startsWith
startsWith(str, prefix) ==
    Len(str) >= Len(prefix) /\ SubSeq(str, 1, Len(prefix)) = prefix

\* String.prototype.slice(0, end)
slice(str, end) == SubSeq(str, 1, Min(end, Len(str)))

\* isVirtualPath treating only the git prefix as virtual
isVirtualPath_GitOnly(p) == Boolean(p) /\ startsWith(p, gitVirtualPathPrefix)

isVirtualPath(p) ==
    Boolean(p) /\ \E prefix \in vcsVirtualPathPrefixes : startsWith(p, prefix)

getHistoryId(entry) ==
    IF entry.provider = "git" THEN slice(entry.hash, 7) ELSE entry.hash

getHistoryPrefix(provider) ==
    IF provider = "git" THEN gitVirtualPathPrefix ELSE p4VirtualPathPrefix

commitLabel(entry) ==
    getHistoryPrefix(entry.provider) \o getHistoryId(entry) \o ":" \o entry.path

\* the entries of the history list a comparison is asked for
HistoryEntries ==
    { [provider |-> "git", hash |-> "c1c2c3c4c5", path |-> "a.txt", deleted |-> FALSE],
      [provider |-> "p4", hash |-> "42", path |-> "//depot/a.txt", deleted |-> FALSE],
      [provider |-> "git", hash |-> "d0", path |-> "a.txt", deleted |-> TRUE] }

\* what vcs_history reports as the repository root (null outside git)
RepoRoots == {Null, "/repo"}

\* originalIsFile / modifiedIsFile
isFile(side) == Boolean(path[side]) /\ ~isVirtualPath(path[side])

historyTargetPath ==
    IF isFile(historySourceSide) THEN path[historySourceSide] ELSE Null

\* getPreferredSide, focusedSideRef.current being focused
getPreferredSide(focused) ==
    IF focused # Null THEN focused
    ELSE IF ~isFile("original") THEN "original"
    ELSE IF ~isFile("modified") THEN "modified"
    ELSE "original"

MAX_RECENT_PROJECTS == 8

\* an addToRecents that keeps the earlier occurrence of the value
addToRecents_KeepOld(list, value, limit) ==
    LET next == <<value>> \o list
    IN SubSeq(next, 1, Min(limit, Len(next)))

\* addToRecents(list, value, limit)
addToRecents(list, value, limit) ==
    LET isOther(item) == item # value
        next == <<value>> \o SelectSeq(list, isOther)
    IN SubSeq(next, 1, Min(limit, Len(next)))

\* secondary.forEach: push the items that combined does not include
RECURSIVE pushMissing(_, _)
pushMissing(combined, secondary) ==
    IF secondary = <<>> THEN combined
    ELSE pushMissing(
           IF \E i \in DOMAIN combined : combined[i] = Head(secondary)
           THEN combined ELSE Append(combined, Head(secondary)),
           Tail(secondary))

\* mergeRecents(primary, secondary, limit)
mergeRecents(primary, secondary, limit) ==
    slice(pushMissing(primary, secondary), limit)

\* str[i], counting from 0
charAt(str, i) == SubSeq(str, i + 1, i + 1)

\* path.replace(/[\\/]+$/, "")
RECURSIVE trimSeparators(_)
trimSeparators(str) ==
    IF Len(str) > 0 /\ charAt(str, Len(str) - 1) \in {"/", "\\"}
    THEN trimSeparators(SubSeq(str, 1, Len(str) - 1))
    ELSE str

\* String.prototype.lastIndexOf, counting from 0 (-1: none)
lastIndexOf(str, c) ==
    LET hits == {i \in 0..(Len(str) - 1) : charAt(str, i) = c}
    IN IF hits = {} THEN -1
       ELSE CHOOSE i \in hits : \A other \in hits : other <= i

\* getDirectoryPath(path): null when the path has no separator
getDirectoryPath(p) ==
    LET trimmed == trimSeparators(p)
        a == lastIndexOf(trimmed, "/")
        b == lastIndexOf(trimmed, "\\")
        slashIndex == IF a > b THEN a ELSE b
    IN IF slashIndex = -1 THEN Null
       ELSE IF slashIndex = 0 THEN "/"
       ELSE IF slashIndex = 2 /\ charAt(trimmed, 1) = ":"
       THEN SubSeq(trimmed, 1, slashIndex + 1)
       ELSE SubSeq(trimmed, 1, slashIndex)

\* the state that addRecentFile(path) sets, from the state recents
addRecentFile(recents, p) ==
    IF ~Boolean(p) THEN recents
    ELSE LET projectPath == getDirectoryPath(p)
         IN [files |-> addToRecents(recents.files, p, MAX_RECENT_FILES),
             projects |->
                IF Boolean(projectPath)
                THEN addToRecents(recents.projects, projectPath,
                                  MAX_RECENT_PROJECTS)
                ELSE recents.projects]

\* the state of useRecents
recents == [files |-> recentFiles, projects |-> recentProjects]

\* setSideContent applied to the slots given as a record
setSideContent(slots, side, contents, p) ==
    [text |-> [slots.text EXCEPT ![side] = contents],
     path |-> [slots.path EXCEPT ![side] = p],
     pathState |-> [slots.pathState EXCEPT ![side] = Boolean(p)]]

historyStatus(message) ==
    [message |-> message, loaded |-> 0, large |-> <<>>, timeout |-> 2500]

comparingStatus(displayId, overwroteOtherSide) ==
    [message |-> "Comparing with " \o displayId \o "."
                 \o (IF overwroteOtherSide THEN " Replaced the other side." ELSE ""),
     loaded |-> 0, large |-> <<>>, timeout |-> 2600]

hook ==
    <<text, path, openSlot, pathState, openQueue, openQueueTimer, timers,
      sinceArrival, files, ops>>

\* what vcs_history lists for a file: each of the two files has one revision
HistoryOf(p) ==
    IF p = FileA
    THEN <<[provider |-> "git", hash |-> "c1c2c3c4c5", path |-> "a.txt",
            deleted |-> FALSE]>>
    ELSE <<[provider |-> "p4", hash |-> "42", path |-> "//depot/a.txt",
            deleted |-> FALSE]>>

\* !force && lastHistoryPathRef.current === historyTargetPath
\*        && historyEntries.length > 0 && !historyError
upToDate(force) ==
    /\ ~force
    /\ lastHistoryPath = historyTargetPath
    /\ Len(historyEntries) > 0
    /\ ~Boolean(historyError)

\* fetchHistory, up to its await
fetchHistory(force) ==
    IF ~Boolean(historyTargetPath)
    THEN /\ historyEntries' = <<>>
         /\ historyRepoRoot' = Null
         /\ historyError' = "Open a file to view history."
         /\ lastHistoryPath' = Null
         /\ fetching' = fetching
    ELSE IF upToDate(force)
    THEN UNCHANGED <<historyEntries, historyRepoRoot, historyError,
                     lastHistoryPath, fetching>>
    ELSE /\ historyError' = Null
         /\ fetching' = fetching (+) SetToBag({[path |-> historyTargetPath]})
         /\ UNCHANGED <<historyEntries, historyRepoRoot, lastHistoryPath>>

\* the refresh button: fetchHistory(true)
FetchHistory ==
    /\ fetchHistory(TRUE)
    /\ historyDeps' = historyDeps
    /\ status' = NoStatus
    /\ returned' = NoCall
    /\ UNCHANGED <<hook, history, historySourceSide, compares, recentFiles,
                   effectPath, editor>>
    /\ UNCHANGED sink
    /\ UNCHANGED mount
    /\ UNCHANGED historyLoadingHash
    /\ UNCHANGED recentsMore
    /\ UNCHANGED diff

\* what the history effect depends on through fetchHistory
fetchHistoryDeps == <<Len(historyEntries), historyError, historyTargetPath>>

\* the effect that calls fetchHistory() while the history panel is visible,
\* run again when fetchHistory is created anew
HistoryEffect ==
    /\ historyDeps # fetchHistoryDeps
    /\ historyDeps' = fetchHistoryDeps
    /\ fetchHistory(FALSE)
    /\ status' = NoStatus
    /\ returned' = NoCall
    /\ UNCHANGED <<hook, history, historySourceSide, compares, recentFiles,
                   effectPath, editor>>
    /\ UNCHANGED sink
    /\ UNCHANGED mount
    /\ UNCHANGED historyLoadingHash
    /\ UNCHANGED recentsMore
    /\ UNCHANGED diff

\* vcs_history returns the list and the root (null outside git), or fails
FetchHistoryReturned(call, ok, repoRoot) ==
    /\ call \in BagToSet(fetching)
    /\ fetching' = fetching (-) SetToBag({call})
    /\ IF ok
       THEN /\ historyEntries' = HistoryOf(call.path)
            /\ historyRepoRoot' = repoRoot
            /\ lastHistoryPath' = call.path
            /\ historyError' = historyError
       ELSE /\ historyEntries' = <<>>
            /\ historyRepoRoot' = Null
            /\ historyError' = "vcs_history failed"
            /\ lastHistoryPath' = Null
    /\ historyDeps' = historyDeps
    /\ status' = NoStatus
    /\ returned' = NoCall
    /\ UNCHANGED <<hook, history, historySourceSide, compares, recentFiles,
                   effectPath, editor>>
    /\ UNCHANGED sink
    /\ UNCHANGED mount
    /\ UNCHANGED historyLoadingHash
    /\ UNCHANGED recentsMore
    /\ UNCHANGED diff

\* handleCompareCommit, up to its await: what the call keeps of the render it
\* was created in
HandleCompareCommit(entry) ==
    /\ IF entry.deleted
       THEN /\ status' = historyStatus("This change deleted the file.")
            /\ compares' = compares
            /\ historyLoadingHash' = historyLoadingHash
       ELSE IF ~Boolean(historyTargetPath)
       THEN /\ status' = historyStatus("History is not available yet.")
            /\ compares' = compares
            /\ historyLoadingHash' = historyLoadingHash
       ELSE IF entry.provider = "git" /\ ~Boolean(historyRepoRoot)
       THEN /\ status' = historyStatus("Git history is not available yet.")
            /\ compares' = compares
            /\ historyLoadingHash' = historyLoadingHash
       ELSE LET otherSide == Other(historySourceSide)
            IN /\ status' = NoStatus
               /\ historyLoadingHash' = entry.hash
               /\ compares' = compares \cup
                    {[entry |-> entry,
                      historySourceSide |-> historySourceSide,
                      workingText |-> text[historySourceSide],
                      workingPath |-> historyTargetPath,
                      overwroteOtherSide |->
                         /\ isFile(otherSide)
                         /\ path[otherSide] # historyTargetPath]}
    /\ returned' = NoCall
    /\ UNCHANGED <<hook, history, historySourceSide, historyRepoRoot, fetching,
                   recentFiles, effectPath, editor>>
    /\ UNCHANGED sink
    /\ UNCHANGED historyList
    /\ UNCHANGED mount
    /\ UNCHANGED recentsMore
    /\ UNCHANGED diff

\* git_show_file / p4_show_file returns the revision, or fails
CompareReturned(call, ok) ==
    /\ call \in compares
    /\ compares' = compares \ {call}
    /\ historyLoadingHash' = Null
    /\ IF ok
       THEN LET slots == [text |-> text, path |-> path, pathState |-> pathState]
                label == commitLabel(call.entry)
                after ==
                  IF call.historySourceSide = "original"
                  THEN setSideContent(
                         setSideContent(slots, "modified", call.workingText,
                                        call.workingPath),
                         "original", RevisionText, label)
                  ELSE setSideContent(slots, "original", RevisionText, label)
            IN /\ text' = after.text
               /\ path' = after.path
               /\ pathState' = after.pathState
               /\ historySourceSide' =
                    IF call.historySourceSide = "original" THEN "modified"
                    ELSE historySourceSide
               /\ status' = comparingStatus(getHistoryId(call.entry),
                                            call.overwroteOtherSide)
               /\ noteOther
       ELSE /\ status' = historyStatus("Failed to load history content.")
            /\ returned' = NoCall
            /\ UNCHANGED <<text, path, pathState, historySourceSide, history>>
    /\ UNCHANGED <<openSlot, openQueue, openQueueTimer, timers, sinceArrival,
                   files, ops, historyRepoRoot, fetching, recentFiles,
                   effectPath, editor>>
    /\ UNCHANGED sink
    /\ UNCHANGED historyList
    /\ UNCHANGED mount
    /\ UNCHANGED recentsMore
    /\ UNCHANGED diff

\* the Source select of the history panel, enabled while both slots hold a
\* file: setHistorySourceSide(event.target.value)
SelectSource(side) ==
    /\ isFile("original") /\ isFile("modified")
    /\ side # historySourceSide
    /\ historySourceSide' = side
    /\ status' = NoStatus
    /\ returned' = NoCall
    /\ UNCHANGED <<hook, history, historyRepoRoot, fetching, compares,
                   recentFiles, effectPath, editor>>
    /\ UNCHANGED sink
    /\ UNCHANGED historyList
    /\ UNCHANGED mount
    /\ UNCHANGED historyLoadingHash
    /\ UNCHANGED recentsMore
    /\ UNCHANGED diff

\* an effect that moves the history source side whenever its slot holds no
\* file
SourceSideEffect_Blind ==
    /\ ~isFile(historySourceSide)
    /\ historySourceSide' = Other(historySourceSide)
    /\ status' = NoStatus
    /\ returned' = NoCall
    /\ UNCHANGED <<hook, history, historyRepoRoot, fetching, compares,
                   recentFiles, effectPath, editor>>
    /\ UNCHANGED sink
    /\ UNCHANGED historyList
    /\ UNCHANGED mount
    /\ UNCHANGED historyLoadingHash
    /\ UNCHANGED recentsMore
    /\ UNCHANGED diff

\* the effect that moves the history source side to the slot holding a file
SourceSideEffect ==
    /\ \/ /\ historySourceSide = "original"
          /\ ~isFile("original") /\ isFile("modified")
          /\ historySourceSide' = "modified"
       \/ /\ historySourceSide = "modified"
          /\ ~isFile("modified") /\ isFile("original")
          /\ historySourceSide' = "original"
    /\ status' = NoStatus
    /\ returned' = NoCall
    /\ UNCHANGED <<hook, history, historyRepoRoot, fetching, compares,
                   recentFiles, effectPath, editor>>
    /\ UNCHANGED sink
    /\ UNCHANGED historyList
    /\ UNCHANGED mount
    /\ UNCHANGED historyLoadingHash
    /\ UNCHANGED recentsMore
    /\ UNCHANGED diff

\* the effect on originalPath / modifiedPath that records a recent file
RecentsEffect(side) ==
    /\ path[side] # effectPath[side]
    /\ effectPath' = [effectPath EXCEPT ![side] = path[side]]
    /\ IF Boolean(path[side]) /\ ~isVirtualPath(path[side])
       THEN /\ recentFiles' = addRecentFile(recents, path[side]).files
            /\ recentProjects' = addRecentFile(recents, path[side]).projects
            /\ lastAdded' = path[side]
       ELSE UNCHANGED <<recentFiles, recentProjects, lastAdded>>
    /\ recentsLoaded' = recentsLoaded
    /\ status' = NoStatus
    /\ returned' = NoCall
    /\ UNCHANGED <<hook, history, historySourceSide, historyRepoRoot, fetching,
                   compares, editor>>
    /\ UNCHANGED sink
    /\ UNCHANGED historyList
    /\ UNCHANGED mount
    /\ UNCHANGED historyLoadingHash
    /\ UNCHANGED diff

-----------------------------------------------------------------------------
(* App.tsx: the editor and handleSaveFocused *)

\* writeTextFile: the bytes of the text (each character of the model stands
\* for its own well-formed UTF-8 sequence)
encode(contents) == [i \in 1..Len(contents) |-> contents[i]]

saveStatus(message, timeout) ==
    [message |-> message, loaded |-> 0, large |-> <<>>, timeout |-> timeout]

\* what the user has typed in place of the text of a slot
EditedText == <<"e", "LF">>

\* targetEditor.getValue(): the text of the focused slot, as loaded or edited
\* since
EditorValues ==
    IF focusedSide = Null THEN {<<>>}
    ELSE {text[focusedSide], EditedText}

\* syncDiffChanges with the diff index left as it is
clampIndex_Keep(prev, changes) == prev

\* setDiffIndex((prev) => changes.length === 0 ? 0 : Math.min(prev, length - 1))
clampIndex(prev, changes) ==
    IF changes = 0 THEN 0 ELSE Min(prev, changes - 1)

\* syncDiffChanges, the editor reporting so many line changes
syncDiffChanges(changes) ==
    /\ diffChanges' = changes
    /\ diffIndex' = clampIndex(diffIndex, changes)

\* handleDiffMount, the editor reporting so many line changes
DiffMount(changes) ==
    /\ ~editorMounted
    /\ editorMounted' = TRUE
    /\ syncDiffChanges(changes)
    /\ status' = NoStatus
    /\ returned' = NoCall
    /\ UNCHANGED <<hook, history, historySourceSide, historyRepoRoot, fetching,
                   compares, recentFiles, effectPath, focusedSide, writes>>
    /\ UNCHANGED sink
    /\ UNCHANGED historyList
    /\ UNCHANGED mount
    /\ UNCHANGED historyLoadingHash
    /\ UNCHANGED recentsMore

\* onDidFocusEditorText of the original / modified editor
FocusEditorText(side) ==
    /\ editorMounted
    /\ focusedSide # side
    /\ focusedSide' = side
    /\ status' = NoStatus
    /\ returned' = NoCall
    /\ UNCHANGED <<hook, history, historySourceSide, historyRepoRoot, fetching,
                   compares, recentFiles, effectPath, editorMounted, writes>>
    /\ UNCHANGED sink
    /\ UNCHANGED historyList
    /\ UNCHANGED mount
    /\ UNCHANGED historyLoadingHash
    /\ UNCHANGED recentsMore
    /\ UNCHANGED diff

\* handleSaveFocused writing whatever label the focused side has
HandleSaveFocused_AnyLabel(contents) ==
    /\ IF focusedSide = Null
       THEN /\ status' = saveStatus("Click inside a panel before saving.", 2500)
            /\ writes' = writes
       ELSE IF ~Boolean(path[focusedSide])
       THEN /\ status' = saveStatus("Open a file on this side before saving.", 2500)
            /\ writes' = writes
       ELSE IF ~editorMounted
       THEN /\ status' = saveStatus("Editor not ready.", 2000)
            /\ writes' = writes
       ELSE /\ status' = NoStatus
            /\ writes' = writes (+) SetToBag({[side |-> focusedSide,
                                              path |-> path[focusedSide],
                                              contents |-> contents]})
    /\ returned' = NoCall
    /\ UNCHANGED <<hook, history, historySourceSide, historyRepoRoot, fetching,
                   compares, recentFiles, effectPath, focusedSide, editorMounted>>
    /\ UNCHANGED sink
    /\ UNCHANGED historyList
    /\ UNCHANGED mount
    /\ UNCHANGED historyLoadingHash
    /\ UNCHANGED recentsMore
    /\ UNCHANGED diff

\* handleSaveFocused, up to its await
HandleSaveFocused(contents) ==
    /\ IF focusedSide = Null
       THEN /\ status' = saveStatus("Click inside a panel before saving.", 2500)
            /\ writes' = writes
       ELSE IF ~Boolean(path[focusedSide]) \/ isVirtualPath(path[focusedSide])
       THEN /\ status' = saveStatus("Open a file on this side before saving.", 2500)
            /\ writes' = writes
       ELSE IF ~editorMounted
       THEN /\ status' = saveStatus("Editor not ready.", 2000)
            /\ writes' = writes
       ELSE /\ status' = NoStatus
            /\ writes' = writes (+) SetToBag({[side |-> focusedSide,
                                              path |-> path[focusedSide],
                                              contents |-> contents]})
    /\ returned' = NoCall
    /\ UNCHANGED <<hook, history, historySourceSide, historyRepoRoot, fetching,
                   compares, recentFiles, effectPath, focusedSide, editorMounted>>
    /\ UNCHANGED sink
    /\ UNCHANGED historyList
    /\ UNCHANGED mount
    /\ UNCHANGED historyLoadingHash
    /\ UNCHANGED recentsMore
    /\ UNCHANGED diff

\* writeTextFile returns, the file written, or fails
SaveReturned(write, ok) ==
    /\ write \in BagToSet(writes)
    /\ writes' = writes (-) SetToBag({write})
    /\ IF ok
       THEN /\ files' = [p \in DOMAIN files \cup {write.path} |->
                           IF p = write.path THEN encode(write.contents)
                           ELSE files[p]]
            /\ status' = saveStatus("Saved " \o (IF write.side = "original"
                                                 THEN "left" ELSE "right")
                                    \o " file.", 2000)
       ELSE /\ files' = files
            /\ status' = saveStatus("Failed to save file.", 2500)
    /\ returned' = NoCall
    /\ UNCHANGED <<text, path, openSlot, pathState, openQueue, openQueueTimer,
                   timers, sinceArrival, ops, history, historySourceSide,
                   historyRepoRoot, fetching, compares, recentFiles,
                   effectPath, focusedSide, editorMounted>>
    /\ UNCHANGED sink
    /\ UNCHANGED historyList
    /\ UNCHANGED mount
    /\ UNCHANGED historyLoadingHash
    /\ UNCHANGED recentsMore
    /\ UNCHANGED diff

-----------------------------------------------------------------------------
(* useStatusMessage: the sink that takes the showStatus calls *)

\* the grain of the sink's time
StatusQuantum == defaultTimeout \div 20

\* showStatus that leaves the pending timeout to fire
clearPending_Never(timerRef, pending) == pending

\* if (timerRef.current) window.clearTimeout(timerRef.current)
clearPending(timerRef, pending) ==
    IF timerRef # NoTimer THEN clearTimeout(pending, timerRef) ELSE pending

\* showStatus(message, timeout)
ShowStatus(call) ==
    /\ statusMessage' = call.message
    /\ LET pending == clearPending(statusTimerRef, statusTimers)
           id == setTimeout(pending)
       IN /\ statusTimerRef' = id
          /\ statusTimers' =
               [t \in DOMAIN pending \cup {id} |->
                  IF t = id THEN [timeout |-> call.timeout, elapsed |-> 0]
                  ELSE pending[t]]
    /\ lastShown' = [message |-> call.message, timeout |-> call.timeout,
                     elapsed |-> 0, replaced |-> statusMessage]
    /\ status' = call
    /\ returned' = NoCall
    /\ UNCHANGED <<hook, history, historySourceSide, historyRepoRoot, fetching,
                   compares, recentFiles, effectPath, editor>>
    /\ UNCHANGED historyList
    /\ UNCHANGED mount
    /\ UNCHANGED historyLoadingHash
    /\ UNCHANGED recentsMore
    /\ UNCHANGED diff

\* time passes; a timeout of the sink fires no later than its delay
StatusTick ==
    /\ statusTimers # <<>>
    /\ \A t \in DOMAIN statusTimers :
          statusTimers[t].elapsed + StatusQuantum <= statusTimers[t].timeout
    /\ statusTimers' =
         [t \in DOMAIN statusTimers |->
            [statusTimers[t] EXCEPT !.elapsed = @ + StatusQuantum]]
    /\ lastShown' =
         [lastShown EXCEPT !.elapsed = Min(@ + StatusQuantum, lastShown.timeout)]
    /\ status' = NoStatus
    /\ returned' = NoCall
    /\ UNCHANGED <<hook, history, historySourceSide, historyRepoRoot, fetching,
                   compares, recentFiles, effectPath, editor, statusMessage,
                   statusTimerRef>>
    /\ UNCHANGED historyList
    /\ UNCHANGED mount
    /\ UNCHANGED historyLoadingHash
    /\ UNCHANGED recentsMore
    /\ UNCHANGED diff

\* timeout t of the sink fires: setStatusMessage(null); timerRef.current = null
StatusTimeout(t) ==
    /\ t \in DOMAIN statusTimers
    /\ statusTimers[t].elapsed = statusTimers[t].timeout
    /\ statusMessage' = Null
    /\ statusTimerRef' = NoTimer
    /\ statusTimers' = clearTimeout(statusTimers, t)
    /\ status' = NoStatus
    /\ returned' = NoCall
    /\ UNCHANGED <<hook, history, historySourceSide, historyRepoRoot, fetching,
                   compares, recentFiles, effectPath, editor, lastShown>>
    /\ UNCHANGED historyList
    /\ UNCHANGED mount
    /\ UNCHANGED historyLoadingHash
    /\ UNCHANGED recentsMore
    /\ UNCHANGED diff

\* some due timeout of the sink fires
StatusTimeouts == \E t \in DOMAIN statusTimers : StatusTimeout(t)

-----------------------------------------------------------------------------
(* Unmount *)

\* an unmount that leaves the timeout of the queue pending
cancelQueueTimer_Never(timerRef, pending) == pending

\* if (openQueueTimerRef.current) window.clearTimeout(openQueueTimerRef.current)
cancelQueueTimer(timerRef, pending) ==
    IF timerRef # NoTimer THEN clearTimeout(pending, timerRef) ELSE pending

\* the listener of "gcompare://open-files", and the paths of
\* consume_open_paths: handed to enqueueOpenPaths while the effect is active
OpenFiles(paths) ==
    /\ active
    /\ EnqueueOpenPaths(paths)

\* App is unmounted: the cleanups of useFileHandlers, of useStatusMessage, of
\* the editor refs and of the listener effect run
Unmount ==
    /\ active
    /\ timers' = cancelQueueTimer(openQueueTimer, timers)
    /\ openQueueTimer' = NoTimer
    /\ openQueue' = <<>>
    /\ statusTimers' = clearPending(statusTimerRef, statusTimers)
    /\ statusTimerRef' = NoTimer
    /\ editorMounted' = FALSE
    /\ focusedSide' = Null
    /\ active' = FALSE
    /\ discarded' = [queue |-> openQueue, timer |-> openQueueTimer]
    /\ status' = NoStatus
    /\ returned' = NoCall
    /\ UNCHANGED <<text, path, openSlot, pathState, sinceArrival, files, ops,
                   history, historySourceSide, historyRepoRoot, fetching,
                   compares, recentFiles, effectPath, writes, statusMessage,
                   lastShown, historyList, historyLoadingHash, recentsMore,
                   diff>>

-----------------------------------------------------------------------------
(* useRecents *)

\* what is left unchanged by the operations of useRecents
recentsFrame ==
    /\ status' = NoStatus
    /\ returned' = NoCall
    /\ UNCHANGED <<hook, history, historySourceSide, historyRepoRoot, fetching,
                   compares, effectPath, editor, sink, historyList, mount,
                   historyLoadingHash, diff>>

\* addRecentFile(path)
AddRecentFile(p) ==
    /\ recentFiles' = addRecentFile(recents, p).files
    /\ recentProjects' = addRecentFile(recents, p).projects
    /\ lastAdded' = IF Boolean(p) THEN p ELSE lastAdded
    /\ recentsLoaded' = recentsLoaded
    /\ recentsFrame

\* getRecents() returns what an earlier run saved: the state is replaced by
\* it when both lists are empty and merged with it otherwise
RecentsLoaded(data) ==
    /\ ~recentsLoaded
    /\ recentsLoaded' = TRUE
    /\ IF Len(recentFiles) = 0 /\ Len(recentProjects) = 0
       THEN /\ recentFiles' = data.files
            /\ recentProjects' = data.projects
       ELSE /\ recentFiles' =
                 mergeRecents(recentFiles, data.files, MAX_RECENT_FILES)
            /\ recentProjects' =
                 mergeRecents(recentProjects, data.projects, MAX_RECENT_PROJECTS)
    /\ lastAdded' = lastAdded
    /\ recentsFrame

\* clearRecents()
ClearRecents ==
    /\ recentFiles' = <<>>
    /\ recentProjects' = <<>>
    /\ UNCHANGED <<recentsLoaded, lastAdded>>
    /\ recentsFrame

\* clearRecentFiles()
ClearRecentFiles ==
    /\ recentFiles' = <<>>
    /\ UNCHANGED <<recentProjects, recentsLoaded, lastAdded>>
    /\ recentsFrame

\* clearRecentProjects()
ClearRecentProjects ==
    /\ recentProjects' = <<>>
    /\ UNCHANGED <<recentFiles, recentsLoaded, lastAdded>>
    /\ recentsFrame

-----------------------------------------------------------------------------
(* Diff navigation *)

\* a handleNavigateDiff that wraps around at both ends
nextIndex_Wrap(direction, index, changes) ==
    IF direction = "next" THEN (index + 1) % changes
    ELSE (index + changes - 1) % changes

\* Math.min(diffIndex + 1, length - 1) / Math.max(diffIndex - 1, 0)
nextIndex(direction, index, changes) ==
    IF direction = "next" THEN Min(index + 1, changes - 1)
    ELSE IF index - 1 > 0 THEN index - 1 ELSE 0

\* what is left unchanged by the diff navigation
diffFrame ==
    /\ returned' = NoCall
    /\ UNCHANGED <<hook, history, historySourceSide, historyRepoRoot, fetching,
                   compares, recentFiles, effectPath, editorMounted, writes,
                   sink, historyList, mount, historyLoadingHash, recentsMore>>

\* onDidUpdateDiff, onDidChangeModel and the frame after a change of the
\* texts: syncDiffChanges, the editor reporting so many line changes
SyncDiffChanges(changes) ==
    /\ editorMounted
    /\ syncDiffChanges(changes)
    /\ focusedSide' = focusedSide
    /\ status' = NoStatus
    /\ diffFrame

\* handleNavigateDiff(direction); the editor revealed takes the focus
HandleNavigateDiff(direction, target) ==
    /\ IF ~editorMounted
       THEN /\ status' = NoStatus
            /\ UNCHANGED <<diff, focusedSide>>
       ELSE IF diffChanges = 0
       THEN /\ status' = [message |-> "No differences found.", loaded |-> 0,
                          large |-> <<>>, timeout |-> 2000]
            /\ UNCHANGED <<diff, focusedSide>>
       ELSE /\ diffIndex' = nextIndex(direction, diffIndex, diffChanges)
            /\ diffChanges' = diffChanges
            /\ focusedSide' = target
            /\ status' = NoStatus
    /\ diffFrame

-----------------------------------------------------------------------------
(* The environment: what is called with what *)

\* the calls of the two callers of applyPaths: a drop names the side under the
\* pointer (App.tsx, onDragDropEvent), the queue names none
ApplyCalls ==
    { <<"drop", "original">>, <<"drop", "modified">>, <<"open", Null>> }

Idle == ops = EmptyBag /\ openQueueTimer = NoTimer

\* a load or a dialog returns
Returns ==
    \/ \E op \in InFlight, ok \in BOOLEAN : ApplyPathsLoaded(op, ok)
    \/ \E op \in InFlight, i \in 1..2, ok \in BOOLEAN : ApplyPathsPairLoaded(op, i, ok)
    \/ \E op \in InFlight, ok \in BOOLEAN : FileLoaded(op, ok)
    \/ \E op \in InFlight : DialogCancelled(op)
    \/ \E op \in InFlight, selection \in Paths : DialogSelected(op, selection)
    \/ \E op \in InFlight : DialogFailed(op)

\* what Spec opens: one file through openFilePath, another through the dialog
OpenInputs == {FileA, ""}

DialogChoices == {FileB}

\* openFilePath, handleOpenFile and setSideContent, concurrently
NextFiles ==
    \/ \E p \in OpenInputs, preferredSide \in Side \cup {Null} :
          OpenFilePath(p, preferredSide)
    \/ \E side \in Side : HandleOpenFile(side)
    \/ \E side \in Side, input \in SetInputs : SetSideContent(side, input[1], input[2])
    \/ \E op \in InFlight, ok \in BOOLEAN : FileLoaded(op, ok)
    \/ \E op \in InFlight : DialogCancelled(op)
    \/ \E op \in InFlight, selection \in DialogChoices : DialogSelected(op, selection)
    \/ \E op \in InFlight : DialogFailed(op)

Spec == Init /\ [][NextFiles]_vars

\* what SpecBatch applies: nothing, one file with no side, or two files with
\* and without a side; one two-path call at a time
BatchCalls ==
    { <<<<>>, "open", Null>>, <<<<FileA>>, "open", Null>>,
      <<<<FileB, FileA, FileA>>, "open", Null>>,
      <<<<FileB, "", FileA>>, "drop", "modified">> }

NoPairInFlight == \A op \in InFlight : Len(op.sides) = 1

\* applyPaths with one or two paths and setSideContent, concurrently
NextBatch ==
    \/ \E call \in BatchCalls :
          /\ Len(filterPaths(call[1])) = 2 => NoPairInFlight
          /\ ApplyPaths(call[1], call[2], call[3])
    \/ \E side \in Side, input \in SetInputs : SetSideContent(side, input[1], input[2])
    \/ \E op \in InFlight, ok \in BOOLEAN : ApplyPathsLoaded(op, ok)
    \/ \E op \in InFlight, i \in 1..2, ok \in BOOLEAN : ApplyPathsPairLoaded(op, i, ok)

SpecBatch == Init /\ [][NextBatch]_vars

\* every operation, each run to its end before the next is issued
NextSeq ==
    \/ /\ Idle
       /\ \/ \E paths \in PathLists, call \in ApplyCalls :
                ApplyPaths(paths, call[1], call[2])
          \/ \E p \in Paths \cup {""}, preferredSide \in Side \cup {Null} :
                OpenFilePath(p, preferredSide)
          \/ \E side \in Side : HandleOpenFile(side)
          \/ \E side \in Side, input \in SetInputs :
                SetSideContent(side, input[1], input[2])
    \/ /\ ops = EmptyBag
       /\ \E paths \in PathLists : EnqueueOpenPaths(paths)
    \/ \E t \in DOMAIN timers : FlushOpenQueue(t)
    \/ Tick
    \/ Returns

SpecSeq == Init /\ [][NextSeq]_vars

\* what the OS-launch channel delivers at a time: nothing usable, or one path
Arrivals == { <<"">>, <<FileA>> }

\* the OS-launch queue in time, with a direct open that names no side issued
\* before, between or after its arrivals, and the loads returning in between;
\* the loads of a flush return before the next window closes
NextQueue ==
    \/ \E paths \in Arrivals : EnqueueOpenPaths(paths)
    \/ /\ \A op \in InFlight : op.source # "open"
       /\ \E t \in DOMAIN timers : FlushOpenQueue(t)
    \/ Tick
    \/ ops = EmptyBag /\ OpenFilePath(FileA, Null)
    \/ \E op \in InFlight, ok \in BOOLEAN : ApplyPathsLoaded(op, ok)
    \/ \E op \in InFlight, i \in 1..2, ok \in BOOLEAN : ApplyPathsPairLoaded(op, i, ok)
    \/ \E op \in InFlight, ok \in BOOLEAN : FileLoaded(op, ok)

SpecQueue == Init /\ [][NextQueue]_vars

\* Loads of a file of any content: what readFile returns for FileA is drawn
\* when the file system is set up
Bytes == {"a", "CR", "LF", "xFF"}

ByteSeqs == UNION {[1..n -> Bytes] : n \in 0..MaxLen}

InitText ==
    \E bytes \in ByteSeqs :
       InitWith([p \in Paths |-> IF p = FileA THEN bytes ELSE FileBytes(p)])

NextText ==
    \/ ops = EmptyBag /\ \E p \in Paths : OpenFilePath(p, Null)
    \/ ops = EmptyBag /\ ApplyPaths(<<FileB, FileA>>, "drop", Null)
    \/ \E op \in InFlight, ok \in BOOLEAN : FileLoaded(op, ok)
    \/ \E op \in InFlight, i \in 1..2, ok \in BOOLEAN : ApplyPathsPairLoaded(op, i, ok)

SpecText == InitText /\ [][NextText]_vars

\* setSideContent called at any moment of an OS launch of one file: before it
\* arrives, while the window is open, while the flushed load is out
NextSet ==
    \/ \E side \in Side, input \in SetInputs : SetSideContent(side, input[1], input[2])
    \/ Idle /\ EnqueueOpenPaths(<<FileB>>)
    \/ \E t \in DOMAIN timers : FlushOpenQueue(t)
    \/ Tick
    \/ \E op \in InFlight, ok \in BOOLEAN : ApplyPathsLoaded(op, ok)

SpecSet == Init /\ [][NextSet]_vars

\* no effect of App is due: React runs the effects of a render before it
\* handles the next event
EffectsRun ==
    /\ effectPath = path
    /\ ~ENABLED SourceSideEffect

\* the asynchronous calls of the hook and of App that are suspended
Suspended == BagCardinality(ops) + Cardinality(compares) + BagCardinality(fetching)

\* the files opened from the dialog or the recent list, the history of the
\* source side fetched and its revisions compared, and the effects of App;
\* comparisons overlap each other, a load and a fetch; a load follows the
\* load before it, and the list is refreshed when nothing is in flight
NextHistory ==
    \/ /\ EffectsRun /\ Suspended < MaxOps /\ ops = EmptyBag
       /\ \E p \in Paths, focused \in Side \cup {Null} :
             OpenFilePath(p, getPreferredSide(focused))
    \/ /\ EffectsRun /\ Suspended < MaxOps /\ ops = EmptyBag
       /\ \E i \in DOMAIN recentFiles, focused \in Side \cup {Null} :
             OpenFilePath(recentFiles[i], getPreferredSide(focused))
    \/ EffectsRun /\ \E op \in InFlight, ok \in BOOLEAN : FileLoaded(op, ok)
    \/ EffectsRun /\ Suspended = 0 /\ FetchHistory
    \/ /\ EffectsRun
       /\ \E call \in BagToSet(fetching), repoRoot \in RepoRoots :
             FetchHistoryReturned(call, repoRoot # Null, repoRoot)
    \/ /\ EffectsRun /\ Suspended < MaxOps /\ Cardinality(compares) <= 1
       /\ \E entry \in HistoryEntries : HandleCompareCommit(entry)
    \/ EffectsRun /\ \E call \in compares, ok \in BOOLEAN : CompareReturned(call, ok)
    \/ SourceSideEffect
    \/ \E side \in Side : RecentsEffect(side)

SpecHistory == Init /\ [][NextHistory]_vars

\* saves from the focused editor, between the loads and the history
\* comparisons that change what the slots show
NextSave ==
    \/ DiffMount(0)
    \/ \E side \in Side : FocusEditorText(side)
    \/ /\ EffectsRun /\ BagCardinality(writes) < MaxOps - 1
       /\ \E contents \in EditorValues : HandleSaveFocused(contents)
    \/ \E write \in BagToSet(writes), ok \in BOOLEAN : SaveReturned(write, ok)
    \/ /\ EffectsRun /\ ops = EmptyBag
       /\ \E side \in Side : OpenFilePath(FileA, side)
    \/ EffectsRun /\ \E op \in InFlight, ok \in BOOLEAN : FileLoaded(op, ok)
    \/ /\ EffectsRun /\ compares = {}
       /\ \E entry \in HistoryEntries : HandleCompareCommit(entry)
    \/ EffectsRun /\ \E call \in compares, ok \in BOOLEAN : CompareReturned(call, ok)
    \/ SourceSideEffect
    \/ \E side \in Side : RecentsEffect(side)

SpecSave == Init /\ [][NextSave]_vars

\* each slot is marked occupied exactly when it has a path
FlagsFollowPaths == \A s \in Side : pathState[s] = (path[s] # Null)

\* a file dialog that ends up dismissed, opened when nothing is in flight and
\* the flags follow the paths; while it is open, files are opened into named
\* slots, one after the other, and setSideContent is called
NextDialog ==
    \/ /\ ops = EmptyBag /\ FlagsFollowPaths
       /\ \E side \in Side : HandleOpenFile(side)
    \/ /\ \A op \in InFlight : op.pc = "dialog"
       /\ \E p \in Paths, side \in Side : OpenFilePath(p, side)
    \/ \E side \in Side, input \in SetInputs : SetSideContent(side, input[1], input[2])
    \/ \E op \in InFlight, ok \in BOOLEAN : FileLoaded(op, ok)
    \/ \E op \in InFlight : DialogCancelled(op)

SpecDialog == Init /\ [][NextDialog]_vars

\* what SpecIdle starts: single-file and two-path applyPaths calls, files
\* opened with and without a side, and the dialog
IdleCalls ==
    { <<<<FileA>>, "open", Null>>, <<<<FileB, FileA>>, "drop", "modified">> }

\* the calls in flight that applyPaths, openFilePath or handleOpenFile made
CallsOf(kind) == {op \in InFlight : op.kind = kind}

\* the read or the dialog that one of these calls awaits returns
ReturnOf(kind) ==
    \E op \in CallsOf(kind) :
       \/ \E ok \in BOOLEAN : ApplyPathsLoaded(op, ok)
       \/ \E i \in 1..2, ok \in BOOLEAN : ApplyPathsPairLoaded(op, i, ok)
       \/ \E ok \in BOOLEAN : FileLoaded(op, ok)
       \/ DialogCancelled(op)
       \/ \E selection \in DialogChoices : DialogSelected(op, selection)
       \/ DialogFailed(op)

CallKinds == {"applyPaths", "openFilePath", "handleOpenFile"}

\* a call is started while at most one other is in flight
OneOther == BagCardinality(ops) <= 1

\* applyPaths, openFilePath and handleOpenFile, two at a time
NextIdle ==
    \/ /\ OneOther
       /\ \E call \in IdleCalls :
             /\ Len(filterPaths(call[1])) = 2 => NoPairInFlight
             /\ ApplyPaths(call[1], call[2], call[3])
    \/ /\ OneOther
       /\ \E preferredSide \in {"modified", Null} : OpenFilePath(FileA, preferredSide)
    \/ OneOther /\ HandleOpenFile("original")
    \/ \E kind \in CallKinds : ReturnOf(kind)

\* every read and every dialog eventually returns or fails
SpecIdle ==
    /\ Init
    /\ [][NextIdle]_vars
    /\ \A kind \in CallKinds : WF_vars(ReturnOf(kind))

\* files opened into named slots, two loads at a time, and the effects of App
NextRace ==
    \/ /\ EffectsRun /\ OneOther
       /\ \E p \in Paths, side \in Side : OpenFilePath(p, side)
    \/ EffectsRun /\ \E op \in InFlight, ok \in BOOLEAN : FileLoaded(op, ok)
    \/ SourceSideEffect
    \/ \E side \in Side : RecentsEffect(side)

SpecRace == Init /\ [][NextRace]_vars

\* the showStatus calls the sink is given: those of the loads, of the history
\* and of the saves
StatusCalls ==
    {showLoadedStatus(FileSize(p)) : p \in Paths}
       \cup {FailedFile, FailedFiles, saveStatus("Editor not ready.", defaultTimeout),
             historyStatus("History is not available yet.")}

\* the sink taking calls at any time, time passing, the timeouts firing
NextStatus ==
    \/ \E call \in StatusCalls : ShowStatus(call)
    \/ StatusTick
    \/ StatusTimeouts

\* time passes and a due timeout fires
SpecStatus ==
    /\ Init
    /\ [][NextStatus]_vars
    /\ WF_vars(StatusTick)
    /\ WF_vars(StatusTimeouts)

\* with the history panel visible, its effect has run as well
Rendered == EffectsRun /\ ~ENABLED HistoryEffect

\* the history panel stays visible while files are opened into the slots one
\* after the other; the list is fetched by the panel's effect and by the
\* refresh button, and the fetches overlap
NextList ==
    \/ /\ Rendered /\ ops = EmptyBag /\ BagCardinality(fetching) < MaxOps
       /\ \E p \in Paths, side \in Side : OpenFilePath(p, side)
    \/ Rendered /\ \E op \in InFlight : FileLoaded(op, TRUE)
    \/ Rendered /\ BagCardinality(fetching) < MaxOps /\ FetchHistory
    \/ /\ Rendered
       /\ \E call \in BagToSet(fetching), repoRoot \in RepoRoots :
             FetchHistoryReturned(call, TRUE, repoRoot)
    \/ EffectsRun /\ HistoryEffect
    \/ SourceSideEffect
    \/ \E side \in Side : RecentsEffect(side)

SpecList == Init /\ [][NextList]_vars

\* what the OS-launch channel delivers in SpecDelivery: one path, or an
\* empty string and another path
Deliveries == { <<FileA>>, <<"", FileB>> }

\* the timeout of the queue fires, no call made by an earlier flush being
\* still in flight
Flushes ==
    /\ \A op \in InFlight : op.source # "open"
    /\ \E t \in DOMAIN timers : FlushOpenQueue(t)

\* a load of an applyPaths call returns
LoadsReturn ==
    \/ \E op \in InFlight, ok \in BOOLEAN : ApplyPathsLoaded(op, ok)
    \/ \E op \in InFlight, i \in 1..2, ok \in BOOLEAN : ApplyPathsPairLoaded(op, i, ok)

\* paths arriving at the queue, in time, once the files of the flush before
\* are read
NextDelivery ==
    \/ ops = EmptyBag /\ \E paths \in Deliveries : EnqueueOpenPaths(paths)
    \/ Flushes
    \/ Tick
    \/ LoadsReturn

\* time passes, a due timeout fires, every read returns
SpecDelivery ==
    /\ Init
    /\ [][NextDelivery]_vars
    /\ WF_vars(Tick)
    /\ WF_vars(Flushes)
    /\ WF_vars(LoadsReturn)

\* paths arriving at the queue, in time, and App unmounted at any moment
NextUnmount ==
    \/ ops = EmptyBag /\ \E paths \in Deliveries : OpenFiles(paths)
    \/ Flushes
    \/ Tick
    \/ LoadsReturn
    \/ Unmount

SpecUnmount == Init /\ [][NextUnmount]_vars

\* files opened on a given side, at most two at a time, and comparisons
\* with the history made one at a time while nothing else is under way
NextLayout ==
    \/ /\ EffectsRun /\ OneOther /\ compares = {} /\ fetching = EmptyBag
       /\ \E p \in Paths, side \in Side : OpenFilePath(p, side)
    \/ EffectsRun /\ \E op \in InFlight, ok \in BOOLEAN : FileLoaded(op, ok)
    \/ /\ EffectsRun /\ ops = EmptyBag /\ compares = {} /\ fetching = EmptyBag
       /\ FetchHistory
    \/ \E call \in BagToSet(fetching), repoRoot \in RepoRoots :
          FetchHistoryReturned(call, repoRoot # Null, repoRoot)
    \/ /\ EffectsRun /\ ops = EmptyBag /\ compares = {} /\ fetching = EmptyBag
       /\ \E entry \in HistoryEntries : HandleCompareCommit(entry)
    \/ \E call \in compares, ok \in BOOLEAN : CompareReturned(call, ok)
    \/ SourceSideEffect
    \/ \E side \in Side : RecentsEffect(side)

SpecLayout == Init /\ [][NextLayout]_vars

\* files opened one at a time on a given side, comparisons with the history,
\* and the Source select, each after the effects of the render before
NextSide ==
    \/ /\ EffectsRun /\ ops = EmptyBag /\ Cardinality(compares) <= 1
       /\ \E p \in Paths, side \in Side : OpenFilePath(p, side)
    \/ EffectsRun /\ \E op \in InFlight, ok \in BOOLEAN : FileLoaded(op, ok)
    \/ /\ EffectsRun /\ ops = EmptyBag /\ compares = {}
       /\ \E entry \in HistoryEntries : HandleCompareCommit(entry)
    \/ EffectsRun /\ \E call \in compares, ok \in BOOLEAN : CompareReturned(call, ok)
    \/ EffectsRun /\ \E side \in Side : SelectSource(side)
    \/ SourceSideEffect
    \/ \E side \in Side : RecentsEffect(side)

\* React runs the effect after the render that changed its dependencies
SpecSide == Init /\ [][NextSide]_vars /\ WF_vars(SourceSideEffect)

\* the lists an earlier run saved: none, a few, or as many as the limits
\* allow
SavedRecents ==
    { [files |-> <<>>, projects |-> <<>>],
      [files |-> <<"/p8/f12", "plain.txt">>, projects |-> <<"/p8">>],
      [files |-> <<"/p1/f1", "/p2/f2", "/p3/f3", "/p4/f4", "/p5/f5", "/p6/f6",
                   "/p7/f7", "/p8/f8", "/p8/f9", "/p8/f10", "/p8/f11",
                   "/p8/f12">>,
       projects |-> <<"/p1", "/p2", "/p3", "/p4", "/p5", "/p6", "/p7",
                      "/p8">>] }

\* the paths addRecentFile is called with: one that no saved list has, one
\* at the end of the saved lists, one with no directory, one at the root of
\* a drive, and an empty one
RecentInputs == {"/p9/f13", "/p8/f12", "plain.txt", "C:\\a.txt", ""}

\* files recorded, the saved lists arriving and the lists cleared, in any
\* order
NextRecents ==
    \/ \E p \in RecentInputs : AddRecentFile(p)
    \/ \E data \in SavedRecents : RecentsLoaded(data)
    \/ ClearRecents
    \/ ClearRecentFiles
    \/ ClearRecentProjects

SpecRecents == Init /\ [][NextRecents]_vars

\* the directions of the navigation buttons
Directions == {"next", "prev"}

\* the editor mounted, the diff recomputed and navigated, the editors
\* focused
NextDiff ==
    \/ \E changes \in 0..MaxChanges : DiffMount(changes)
    \/ \E changes \in 0..MaxChanges : SyncDiffChanges(changes)
    \/ \E direction \in Directions, target \in Side :
          HandleNavigateDiff(direction, target)
    \/ \E side \in Side : FocusEditorText(side)

SpecDiff == Init /\ [][NextDiff]_vars

-----------------------------------------------------------------------------
(* Properties *)

BothOccupied == pathState["original"] /\ pathState["modified"]

IsPair(op) == Len(op.sides) = 2

\* a two-path call this step has issued
IsNewPair(op) == IsPair(op) /\ op.results = <<"pending", "pending">>

FailureMessages == {"Failed to load file.", "Failed to load files."}

\* C1: whenever exactly one slot is occupied, a single-file open with no
\* explicit side takes the unoccupied slot whatever the pointer is, and leaves
\* the pointer unchanged, so the next pointer-decided resolve returns the value
\* the pointer had before.
C1_FillEmptyFirst ==
    [][\A op \in Started :
          (IsAuto(op) /\ pathState["original"] # pathState["modified"])
          => /\ ~pathState[op.sides[1]]
             /\ op.wasEmpty[1]
             /\ openSlot' = openSlot
             /\ resolveOpenSide([s \in Side |-> TRUE], openSlot').side = openSlot]_vars

C1_Witness ==
    /\ trace = <<"original", "modified">>
    /\ openSlot = "modified"
    /\ \E op \in InFlight :
          IsAuto(op) /\ op.sides[1] = "modified" /\ op.wasEmpty[1]

AlternateFromA(i) == IF i % 2 = 1 THEN "original" ELSE "modified"

\* C2 as stated: from both slots unoccupied and the pointer at A, direct
\* single-file opens with no explicit side, each loaded before the next is
\* issued, take A, B, A, B, ...
C2_StrictAlternation ==
    trace # Void => \A i \in 1..Len(trace) : trace[i] = AlternateFromA(i)

AfterFill(i) ==
    IF i = 1 THEN "original"
    ELSE IF i = 2 THEN "modified"
    ELSE IF i % 2 = 1 THEN "modified" ELSE "original"

\* C2 as amended: such opens take A, B, B, A, B, A, ...: the second open fills
\* the empty slot B without advancing the pointer, so the third takes B again,
\* and from the third on each open takes the slot the one before did not.
C2_AlternationAfterFill ==
    trace # Void => \A i \in 1..Len(trace) : trace[i] = AfterFill(i)

C2_Witness ==
    /\ trace = <<"original", "modified", "modified", "original">>
    /\ ops = EmptyBag
    /\ returned.results = <<"ok">>

C4_Rollback ==
    ( /\ Len(returned.sides) = 1
      /\ returned.results[1] = "fail"
      /\ returned.wasEmpty[1]
      /\ ops = EmptyBag )
    => LET side == returned.sides[1]
       IN /\ ~pathState[side]
          /\ pathState[Other(side)]
             => resolveOpenSide(pathState, openSlot).side = side

C4_Witness ==
    /\ returned.kind = "applyPaths"
    /\ returned.sides = <<"modified">>
    /\ returned.results = <<"fail">>
    /\ returned.wasEmpty = <<TRUE>>
    /\ ops = EmptyBag
    /\ pathState["original"]
    /\ ~pathState["modified"]

OwnerRollback(s) ==
    \E i \in DOMAIN returned'.sides :
       /\ returned'.sides[i] = s
       /\ returned'.wasEmpty[i]
       /\ returned'.results[i] \in {"fail", "cancelled", "error"}

\* the step is setSideContent on slot s with a null label
SetWithNullLabel(s) ==
    returned' = NoCall /\ ops' = ops /\ ~Boolean(path'[s])

\* C6 as stated: a slot's occupied flag goes from true to false only in the
\* rollback of the call whose reservation found it unoccupied; no
\* setSideContent call clears it.
C6_OnlyOwnerRollbackClears ==
    [][\A s \in Side : (pathState[s] /\ ~pathState'[s]) => OwnerRollback(s)]_vars

\* C6 as amended: a slot's occupied flag goes from true to false only in the
\* rollback (load failure, dialog dismissed or failed) of a call that found it
\* unoccupied when it reserved it, or in a setSideContent call on that slot
\* with a null label.
C6_ClearedByRollbackOrNullLabel ==
    [][\A s \in Side :
          (pathState[s] /\ ~pathState'[s])
          => (OwnerRollback(s) \/ SetWithNullLabel(s))]_vars

C6_Witness ==
    /\ returned = NoCall
    /\ \E op \in InFlight :
          /\ op.wasEmpty[1]
          /\ ~pathState[op.sides[1]]
          /\ path[op.sides[1]] = Null
          /\ text[op.sides[1]] = RevisionText

\* C7 as stated: while a single-file open with no explicit side that reserved
\* an unoccupied slot is in flight, a second such open never takes the same
\* slot.
C7_NeverTheSameSlot ==
    [][\A first \in InFlight, second \in Started :
          (IsAuto(first) /\ first.wasEmpty[1] /\ IsAuto(second))
          => second.sides[1] # first.sides[1]]_vars

\* C7 as amended: while the first open's reservation stands, the second takes
\* the other slot if that slot is unoccupied when the second is resolved; if
\* the other slot is occupied the second is decided by the pointer and can
\* take the first's slot.
C7_SecondFillsOtherSlot ==
    [][\A first \in InFlight, second \in Started :
          ( /\ IsAuto(first) /\ first.wasEmpty[1] /\ IsAuto(second)
            /\ pathState[first.sides[1]] )
          => IF pathState[Other(first.sides[1])]
             THEN second.sides[1] = openSlot
             ELSE second.sides[1] = Other(first.sides[1])]_vars

C7_Witness ==
    /\ BagCardinality(ops) = 2
    /\ \E first \in InFlight, second \in InFlight :
          /\ IsAuto(first) /\ first.wasEmpty[1]
          /\ IsAuto(second) /\ second.wasEmpty[1]
          /\ first.sides[1] # second.sides[1]
    /\ path = [s \in Side |-> Null]

\* C8 as stated: while a two-path call is in flight, a single-file open with
\* no explicit side sees both slots occupied and is decided by the pointer.
C8_PairShieldsBothSlots ==
    [][\A pair \in InFlight, single \in Started :
          (IsPair(pair) /\ IsAuto(single))
          => (BothOccupied /\ single.sides[1] = openSlot)]_vars

\* C8 as amended: a two-path call marks both slots occupied in the step that
\* issues it and clears neither before both its loads have returned; a
\* single-file open with no explicit side resolved meanwhile is decided by the
\* pointer as long as both flags are still set (setSideContent with a null
\* label, or the rollback of an open issued before the pair, can clear one in
\* the meantime).
C8_AtomicPairReservation ==
    [][/\ \A pair \in Started : IsNewPair(pair) => BothOccupied'
       /\ (IsPair(returned') /\ "pending" \in {returned'.results[i] : i \in 1..2})
          => pathState' = pathState
       /\ \A pair \in InFlight, single \in Started :
             (IsPair(pair) /\ IsAuto(single))
             => (BothOccupied
                 => single.sides[1] = openSlot /\ openSlot' = Other(openSlot))]_vars

C8_Witness ==
    /\ BothOccupied
    /\ \E pair \in InFlight, single \in InFlight :
          /\ IsPair(pair)
          /\ pair.wasEmpty = <<TRUE, TRUE>>
          /\ pair.results = <<"fail", "pending">>
          /\ IsAuto(single)
          /\ ~single.wasEmpty[1]

\* C9: a two-path call loads its first path into preferredSide if given and
\* else into slot A, and its second path into the other slot, whatever the
\* occupancy flags and the pointer are; it leaves the pointer alone.
C9_TwoPathAssignment ==
    [][/\ \A op \in Started :
             IsNewPair(op)
             => /\ op.sides[1] = IF op.preferredSide # Null
                                 THEN op.preferredSide ELSE "original"
                /\ op.sides[2] = Other(op.sides[1])
                /\ openSlot' = openSlot
       /\ \A op \in InFlight, i \in 1..2 :
             ( /\ IsPair(op)
               /\ op.results[i] = "pending"
               /\ returned' = [op EXCEPT !.results[i] = "ok"] )
             => path'[op.sides[i]] = op.paths[i]]_vars

C9_Witness ==
    /\ openSlot = "modified"
    /\ \E op \in InFlight :
          /\ IsPair(op)
          /\ op.preferredSide = "modified"
          /\ op.sides = <<"modified", "original">>
          /\ op.wasEmpty = <<FALSE, TRUE>>
          /\ op.results = <<"ok", "pending">>
          /\ path["modified"] = op.paths[1]

\* C10: when a two-path call ends with nothing else interleaved, each slot
\* whose load failed has the occupied flag it had before the call and each
\* slot whose load succeeded is occupied; a load's return changes neither the
\* content nor the path of the other slot.
C10_IndependentRollback ==
    [][/\ (IsPair(returned') /\ "pending" \notin {returned'.results[i] : i \in 1..2})
          => \A i \in 1..2 :
                pathState'[returned'.sides[i]] =
                   IF returned'.results[i] = "fail"
                   THEN ~returned'.wasEmpty[i] ELSE TRUE
       /\ \A op \in InFlight, i \in 1..2 :
             ( /\ IsPair(op)
               /\ op.results[i] = "pending"
               /\ returned' \in {[op EXCEPT !.results[i] = "ok"],
                                 [op EXCEPT !.results[i] = "fail"]} )
             => /\ text'[op.sides[3 - i]] = text[op.sides[3 - i]]
                /\ path'[op.sides[3 - i]] = path[op.sides[3 - i]]
                /\ "pending" \in {returned'.results[k] : k \in 1..2}
                   => pathState' = pathState]_vars

C10_Witness ==
    /\ IsPair(returned)
    /\ returned.wasEmpty = <<TRUE, TRUE>>
    /\ returned.results = <<"fail", "ok">>
    /\ ops = EmptyBag
    /\ ~pathState[returned.sides[1]]
    /\ pathState[returned.sides[2]]
    /\ path[returned.sides[1]] = Null
    /\ status.loaded = 1

FirstTwo(queue) == SubSeq(queue, 1, IF Len(queue) < 2 THEN Len(queue) ELSE 2)

\* the step is a timeout of the queue firing
IsFlush == openQueueTimer # NoTimer /\ openQueueTimer' = NoTimer

\* the step is an arrival taken by enqueueOpenPaths while a timeout is pending
IsLaterArrival ==
    openQueueTimer # NoTimer /\ openQueueTimer' # NoTimer /\ openQueue' # openQueue

\* C11: a path that arrives at enqueueOpenPaths while the timeout is pending is
\* appended to the queue behind the paths that arrived before and starts no
\* applyPaths call; the timeout's firing empties the queue and starts exactly
\* one applyPaths call, with origin "open", no preferred side and the queued
\* paths in arrival order (the first two of them).
C11_DebounceCoalescing ==
    [][/\ IsLaterArrival
          => /\ Len(openQueue') > Len(openQueue)
             /\ SubSeq(openQueue', 1, Len(openQueue)) = openQueue
             /\ openQueueTimer' = openQueueTimer
             /\ Started = {}
       /\ IsFlush
          => /\ openQueue' = <<>>
             /\ Cardinality(Started) = 1
             /\ BagCardinality(ops') = BagCardinality(ops) + 1
             /\ \A op \in Started :
                   /\ op.kind = "applyPaths"
                   /\ op.source = "open"
                   /\ op.preferredSide = Null
                   /\ op.paths = FirstTwo(openQueue)]_vars

C11_Witness ==
    /\ openQueue = <<>>
    /\ openQueueTimer = NoTimer
    /\ timers = <<>>
    /\ sinceArrival < OpenDelay
    /\ BagCardinality(ops) = 1
    /\ \E op \in InFlight :
          /\ op.source = "open"
          /\ op.paths = <<FileB, FileB>>
          /\ op.results = <<"pending", "pending">>

\* the step is an arrival taken by enqueueOpenPaths
IsArrival == openQueue' # openQueue /\ openQueue' # <<>>

\* C12: the queue is flushed only once a full delay has passed since the most
\* recent arrival, and a path arriving less than one delay after the arrival
\* before it joins the batch that arrival is in.
C12_TimerRearmed ==
    [][/\ IsFlush => sinceArrival = OpenDelay
       /\ (IsArrival /\ sinceArrival < OpenDelay)
          => /\ openQueueTimer # NoTimer
             /\ Len(openQueue) > 0
             /\ SubSeq(openQueue', 1, Len(openQueue)) = openQueue]_vars

\* C13: at most one timeout of the queue is pending, it is the one held in
\* openQueueTimerRef, and one is pending exactly when the queue is non-empty
\* (so a firing always finds paths to flush, and a queue is flushed by the
\* one timeout set for it).
C13_SinglePendingTimer ==
    /\ Cardinality(DOMAIN timers) <= 1
    /\ DOMAIN timers = IF openQueueTimer = NoTimer THEN {} ELSE {openQueueTimer}
    /\ (openQueueTimer # NoTimer) <=> (Len(openQueue) > 0)

C13_Witness ==
    /\ openQueue = <<FileA, FileA>>
    /\ openQueueTimer # NoTimer
    /\ DOMAIN timers = {openQueueTimer}
    /\ timers[openQueueTimer] = Quantum
    /\ sinceArrival = 0

NoUsablePath(paths) == \A i \in 1..Len(paths) : paths[i] = ""

\* enqueueOpenPaths sets the pointer to A exactly on the first usable arrival
\* of a queue
ResetOnFreshQueue ==
    /\ IsArrival
       => openSlot' = IF openQueue = <<>> /\ openQueueTimer = NoTimer
                      THEN "original" ELSE openSlot
    /\ \A paths \in Arrivals :
          (NoUsablePath(paths) /\ EnqueueOpenPaths(paths)) => openSlot' = openSlot

\* the step flushes a queue of one path with both slots occupied or both not
IsSingleLaunch ==
    /\ IsFlush
    /\ Len(openQueue) = 1
    /\ pathState["original"] = pathState["modified"]

\* C14 as stated: enqueueOpenPaths sets the pointer to A exactly when it takes
\* a usable path with the queue empty and no timeout pending; hence a
\* single-file OS launch flushed while both slots are occupied or both are
\* unoccupied targets slot A.
C14_LaunchTargetsA ==
    [][/\ ResetOnFreshQueue
       /\ IsSingleLaunch => \A op \in Started : op.sides[1] = "original"]_vars

\* C14 as amended: the reset is as stated; while the queue accumulates the
\* pointer is moved only by single-file opens that name no side; a single-file
\* OS launch flushed while both slots are occupied or both are unoccupied
\* targets the slot the pointer holds at the flush, which is A only if such
\* opens have not moved it since the queue began.
C14_LaunchTargetsPointer ==
    [][/\ ResetOnFreshQueue
       /\ (openQueueTimer # NoTimer /\ openSlot' # openSlot)
          => \E op \in Started : IsAuto(op) /\ op.sides[1] = openSlot
       /\ IsSingleLaunch
          => /\ \A op \in Started : op.sides[1] = openSlot
             /\ openSlot' = Other(openSlot)]_vars

C14_Witness ==
    /\ openQueue = <<>>
    /\ openQueueTimer = NoTimer
    /\ Len(autoRun) >= 1
    /\ autoRun[Len(autoRun)] = [side |-> "modified", queued |-> TRUE]
    /\ \E op \in InFlight :
          op.kind = "applyPaths" /\ op.sides = <<"modified">> /\ ~op.wasEmpty[1]

IsUsable(p) == p # ""

Usable(paths) == SelectSeq(paths, IsUsable)

\* C15: an applyPaths call loads the first two non-empty paths it was given,
\* in order, one slot each, and no slot ever receives another of its paths (a
\* flushed queue is given whole, so its third and later paths are loaded
\* nowhere); given no non-empty path, applyPaths changes no slot, flag or
\* pointer, starts no load and shows no status.
C15_InputTruncation ==
    [][/\ \A op \in Started :
             op.kind = "applyPaths"
             => /\ op.paths = FirstTwo(Usable(op.given))
                /\ Len(op.sides) = Len(op.paths)
       /\ IsFlush => \A op \in Started : op.given = openQueue
       /\ \A s \in Side :
             (path'[s] # path[s] /\ returned' # NoCall)
             => \E i \in DOMAIN returned'.paths :
                   /\ returned'.sides[i] = s
                   /\ returned'.paths[i] = path'[s]
                   /\ returned'.results[i] = "ok"
       /\ \A paths \in PathLists, call \in ApplyCalls :
             (NoUsablePath(paths) /\ ApplyPaths(paths, call[1], call[2]))
             => /\ UNCHANGED <<text, path, pathState, openSlot, openQueue, ops>>
                /\ status' = NoStatus]_vars

C15_Witness ==
    /\ returned.kind = "applyPaths"
    /\ returned.source = "open"
    /\ returned.given = <<FileA, FileA, FileB>>
    /\ returned.paths = <<FileA, FileA>>
    /\ returned.results = <<"ok", "ok">>
    /\ path = [s \in Side |-> FileA]
    /\ ops = EmptyBag

Succeeded(call) == Cardinality({i \in DOMAIN call.results : call.results[i] = "ok"})

AllReturned(call) == \A i \in DOMAIN call.results : call.results[i] # "pending"

\* C16: an applyPaths call that loads something shows no status when it is
\* issued nor while one of its loads is still out; the step in which its last
\* load returns ends the call and shows one status, which is the failure
\* message exactly when no load succeeded and otherwise reports the number of
\* loads that succeeded (1 or 2) under the label of the origin.
C16_PartialSuccess ==
    [][/\ \A op \in Started : op.kind = "applyPaths" => status' = NoStatus
       /\ returned'.kind = "applyPaths"
          => IF ~AllReturned(returned')
             THEN /\ status' = NoStatus
                  /\ BagCardinality(ops') = BagCardinality(ops)
             ELSE /\ BagCardinality(ops') = BagCardinality(ops) - 1
                  /\ status'.message # Null
                  /\ (status' = FailedFiles) <=> (Succeeded(returned') = 0)
                  /\ Succeeded(returned') > 0
                     => /\ status'.loaded = Succeeded(returned')
                        /\ status'.message = IF returned'.source = "drop"
                                             THEN "Dropped" ELSE "Loaded"]_vars

C16_Witness ==
    /\ IsPair(returned)
    /\ returned.results = <<"fail", "ok">>
    /\ returned.source = "drop"
    /\ status.message = "Dropped"
    /\ status.loaded = 1
    /\ path[returned.sides[2]] = returned.paths[2]

\* the labels of the slots into which the call loaded a file of 2,097,152
\* bytes or more, in the order of its paths
LargeLabels(call) ==
    LET label(i) == IF /\ i \in DOMAIN call.results
                       /\ call.results[i] = "ok"
                       /\ FileSize(call.paths[i]) >= 2097152
                    THEN <<SideLabel(call.sides[i])>>
                    ELSE <<>>
    IN label(1) \o label(2)

\* C17: when a call returns for good, the status it shows flags a load as
\* large exactly when the load succeeded and the file has 2,097,152 bytes or
\* more: applyPaths names the slots (Left for original, Right for modified)
\* that received such a file, and those slots hold it; the single-file opens
\* say "Large" exactly in that case.  A failed load is never flagged.
C17_LargeFileFlagging ==
    [][(returned' # NoCall /\ AllReturned(returned'))
       => IF returned'.kind = "applyPaths"
          THEN /\ status'.large = LargeLabels(returned')
               /\ \A i \in DOMAIN returned'.results :
                     (/\ returned'.results[i] = "ok"
                      /\ FileSize(returned'.paths[i]) >= 2097152)
                     => path'[returned'.sides[i]] = returned'.paths[i]
          ELSE /\ status'.large = <<>>
               /\ (status'.message = "File loaded. Large.")
                  <=> (/\ returned'.results[1] = "ok"
                       /\ FileSize(returned'.paths[1]) >= 2097152)]_vars

C17_Witness ==
    /\ IsPair(returned)
    /\ returned.paths = <<FileB, FileA>>
    /\ returned.sides = <<"modified", "original">>
    /\ returned.results = <<"ok", "ok">>
    /\ FileSize(FileB) = 2097152
    /\ FileSize(FileA) = 2097151
    /\ status.loaded = 2
    /\ status.large = <<"Right">>

Chars(s) == {s[i] : i \in DOMAIN s}

\* the number of CRLF pairs of s
CRLFPairs(s) ==
    Cardinality({i \in DOMAIN s : s[i] = "CR" /\ i < Len(s) /\ s[i + 1] = "LF"})

\* the positions of s that are not the LF of a CRLF pair
Kept(s) == {i \in DOMAIN s : ~(s[i] = "LF" /\ i > 1 /\ s[i - 1] = "CR")}

\* s with the LF of every CRLF pair left out and every CR turned into LF
SingleLF(s) ==
    LET nth(k) == CHOOSE i \in Kept(s) : Cardinality({j \in Kept(s) : j < i}) = k - 1
    IN [k \in 1..Cardinality(Kept(s)) |->
          IF s[nth(k)] = "CR" THEN "LF" ELSE s[nth(k)]]

\* C18: the text of a slot that holds a file is the decoded content of the
\* file in which each CRLF pair and each CR alone has become one LF: it has
\* no CR, a CRLF pair has shortened it by one, normalizing it again does not
\* change it, and content without CR is stored as decoded.
C18_LineEndings ==
    \A s \in Side :
       path[s] \in Paths
       => LET decoded == decode(files[path[s]])
          IN /\ text[s] = SingleLF(decoded)
             /\ "CR" \notin Chars(text[s])
             /\ Len(text[s]) = Len(decoded) - CRLFPairs(decoded)
             /\ replaceLineEndings(text[s]) = text[s]
             /\ "CR" \notin Chars(decoded) => text[s] = decoded

C18_Witness ==
    /\ files[FileA] = <<"CR", "LF", "CR">>
    /\ path["original"] = FileA
    /\ text["original"] = <<"LF", "LF">>
    /\ path["modified"] = FileB

HasVcsPrefix(p) == startsWith(p, "git:") \/ startsWith(p, "p4:")

\* no slot whose path has a VCS prefix supplies the history target path, to
\* the current render or to a comparison under way, and no such path is in
\* the recent files
VirtualKeptApart ==
    /\ HasVcsPrefix(path[historySourceSide]) => historyTargetPath = Null
    /\ ~HasVcsPrefix(historyTargetPath)
    /\ \A call \in compares : ~HasVcsPrefix(call.workingPath)
    /\ \A i \in DOMAIN recentFiles : ~HasVcsPrefix(recentFiles[i])

\* C20 as stated: every path a successful history comparison assigns to a slot
\* begins with "git:" or "p4:" and is virtual for isVirtualPath; a slot with a
\* virtual path never supplies the history target path and no virtual path is
\* ever in the recent files.
C20_EveryAssignedPathVirtual ==
    [][/\ VirtualKeptApart'
       /\ \A call \in compares :
             CompareReturned(call, TRUE)
             => \A s \in Side :
                   path'[s] # path[s]
                   => HasVcsPrefix(path'[s]) /\ isVirtualPath(path'[s])]_vars

\* C20 as amended: a successful history comparison puts the revision in the
\* original slot under a label that begins with the prefix of the entry's
\* provider and is virtual for isVirtualPath; the only other path it assigns
\* is the real path of the working file, moved to the modified slot; a slot
\* with a virtual path never supplies the history target path and no virtual
\* path is ever in the recent files.
C20_RevisionLabelVirtual ==
    [][/\ VirtualKeptApart'
       /\ \A call \in compares :
             CompareReturned(call, TRUE)
             => /\ text'["original"] = RevisionText
                /\ HasVcsPrefix(path'["original"])
                /\ startsWith(path'["original"],
                              IF call.entry.provider = "git" THEN "git:" ELSE "p4:")
                /\ isVirtualPath(path'["original"])
                /\ path'["modified"] # path["modified"]
                   => /\ call.historySourceSide = "original"
                      /\ path'["modified"] = call.workingPath
                      /\ path'["modified"] \in Paths
                      /\ ~HasVcsPrefix(path'["modified"])]_vars

C20_Witness ==
    /\ path["original"] = "p4:42://depot/a.txt"
    /\ text["original"] = RevisionText
    /\ path["modified"] = FileA
    /\ historySourceSide = "modified"
    /\ historyTargetPath = FileA
    /\ recentFiles = <<FileA>>
    /\ effectPath = path
    /\ compares = {}

\* the writeTextFile calls this step has issued
Issued == {w \in BagToSet(writes') : CopiesIn(w, writes') > CopiesIn(w, writes)}

\* the save guard passes: a side is focused, its path is a real one and the
\* editor is mounted
MaySave ==
    /\ focusedSide \in Side
    /\ path[focusedSide] # Null
    /\ ~HasVcsPrefix(path[focusedSide])
    /\ editorMounted

\* C21: handleSaveFocused issues a write exactly when a side is focused, the
\* path of that side is not null and not virtual and the editor is mounted,
\* and then it writes to that path; otherwise it issues none and shows a
\* status.  No other step issues a write, a write is never addressed to a
\* label or to no path, and a file changes only by the return of a write
\* addressed to it.
C21_SaveGuard ==
    [][/\ \A contents \in EditorValues :
             HandleSaveFocused(contents)
             => IF MaySave
                THEN /\ Issued = {[side |-> focusedSide,
                                   path |-> path[focusedSide],
                                   contents |-> contents]}
                     /\ BagCardinality(writes') = BagCardinality(writes) + 1
                ELSE /\ writes' = writes
                     /\ status'.message # Null
       /\ \A w \in Issued :
             /\ MaySave
             /\ w.path = path[w.side]
             /\ w.path \in Paths
       /\ \A p \in DOMAIN files' :
             (p \notin DOMAIN files \/ files'[p] # files[p])
             => /\ p \in Paths
                /\ \E w \in BagToSet(writes) :
                      /\ w.path = p
                      /\ writes' = writes (-) SetToBag({w})
                      /\ files'[p] = w.contents]_vars

C21_Witness ==
    /\ focusedSide = "original"
    /\ HasVcsPrefix(path["original"])
    /\ text["original"] = RevisionText
    /\ status.message = "Open a file on this side before saving."
    /\ writes = EmptyBag
    /\ files[FileA] = EditedText
    /\ path["modified"] = FileA

\* the slot shows a real file: its path is neither null nor a label
ShowsFile(s) == path[s] # Null /\ ~HasVcsPrefix(path[s])

\* C22: when a history comparison started with the original slot as history
\* source assigns its revision, the modified slot keeps its content and path
\* if it shows a real file with a path other than the working path, and
\* otherwise receives the working content and path.
C22_SwapOnlyIfFree ==
    [][\A call \in compares :
          (CompareReturned(call, TRUE) /\ call.historySourceSide = "original")
          => IF ShowsFile("modified") /\ path["modified"] # call.workingPath
             THEN /\ text'["modified"] = text["modified"]
                  /\ path'["modified"] = path["modified"]
             ELSE /\ text'["modified"] = call.workingText
                  /\ path'["modified"] = call.workingPath]_vars

\* the status of the step is that of a successful comparison with the note
\* "Replaced the other side."
HasReplacedNote(call) ==
    status'.message
      = "Comparing with " \o getHistoryId(call.entry) \o ". Replaced the other side."

\* C23: the status of a successful history comparison carries the note
\* "Replaced the other side." exactly when, in the state in which the slots
\* are assigned, the slot other than the history source side of the
\* comparison shows a real file whose path is not the working path.
C23_NoteAccurate ==
    [][\A call \in compares :
          CompareReturned(call, TRUE)
          => (HasReplacedNote(call)
              <=> (/\ ShowsFile(Other(call.historySourceSide))
                   /\ path[Other(call.historySourceSide)] # call.workingPath))]_vars

\* openFilePath is loading a file into slot s
LoadingInto(s) == \E op \in InFlight : op.pc = "load" /\ op.sides[1] = s

\* C24: the step in which a file dialog is dismissed shows no status and
\* changes no content and no path, and leaves each slot's occupied flag as it
\* would be without the handleOpenFile call: true exactly when the slot has
\* a path or a load into it is under way.
C24_CancelIsSilentNoOp ==
    [][\A op \in InFlight :
          DialogCancelled(op)
          => /\ status' = NoStatus
             /\ text' = text
             /\ path' = path
             /\ \A s \in Side :
                   pathState'[s] = (path[s] # Null \/ LoadingInto(s))]_vars

\* the last step resumed a call of the kind, and the call ran to its end
Finished(kind) ==
    /\ returned.kind = kind
    /\ \A i \in DOMAIN returned.results :
          returned.results[i] \in {"ok", "fail", "cancelled", "error"}

\* a step in which a load or a dialog of some call has failed or was dismissed
IsFailure ==
    \E i \in DOMAIN returned'.results :
       returned'.results[i] \in {"fail", "cancelled", "error"}

\* C25: a step in which a load or a dialog fails issues no new read: at most
\* the resumed call itself stays in flight, with the failure recorded; when
\* no call is in flight a new one can start, and no slot without a path is
\* marked occupied; and, provided every read and dialog returns, each call
\* of openFilePath, handleOpenFile and applyPaths in flight runs to its end.
C25_ReturnToIdle ==
    /\ [][IsFailure => /\ Started \subseteq {returned'}
                       /\ BagCardinality(ops') <= BagCardinality(ops)]_vars
    /\ [](ops = EmptyBag
          => /\ CanStart
             /\ \A s \in Side : pathState[s] => path[s] # Null)
    /\ \A kind \in CallKinds : (CallsOf(kind) # {}) ~> Finished(kind)

\* no call is in flight after a two-path call has ended with the load into
\* the slot it had reserved empty failed
C25_Witness ==
    /\ ops = EmptyBag
    /\ returned.kind = "applyPaths"
    /\ Len(returned.sides) = 2
    /\ \E i \in 1..2 : returned.results[i] = "fail" /\ returned.wasEmpty[i]

\* what a slot shows of the file at p
Shown(p) == replaceLineEndings(decode(files[p]))

\* C26: when a load into a slot returns with the file read, the slot shows
\* that file and its path, whatever it showed before and whichever loads
\* into it are still under way, and the other slot is left alone; when it
\* returns failed, both slots keep their text and path.
C26_LastWriteWins ==
    [][\A op \in InFlight, ok \in BOOLEAN :
          FileLoaded(op, ok)
          => LET s == op.sides[1]
             IN IF ok
                THEN /\ path'[s] = op.paths[1]
                     /\ text'[s] = Shown(op.paths[1])
                     /\ path'[Other(s)] = path[Other(s)]
                     /\ text'[Other(s)] = text[Other(s)]
                ELSE text' = text /\ path' = path]_vars

\* the load that reserved the empty slot is the last to complete: the slot
\* showed the other file, stored by a load that was issued after it, and now
\* shows its file
C26_Witness ==
    /\ ops = EmptyBag
    /\ returned.kind = "openFilePath"
    /\ returned.results = <<"ok">>
    /\ returned.wasEmpty = <<TRUE>>
    /\ returned.paths = <<FileA>>
    /\ effectPath[returned.sides[1]] = FileB
    /\ path[returned.sides[1]] = FileA
    /\ text[returned.sides[1]] = Shown(FileA)
    /\ path[Other(returned.sides[1])] = Null

\* C27: at most one timeout of the sink is pending; a message on display is
\* that of the latest showStatus call, whose timeout is the pending one; the
\* message is cleared only once the timeout of the latest call has elapsed
\* in full; and a message on display for some time is eventually cleared
\* unless a further showStatus call is made.
C27_StatusAutoClearing ==
    /\ [](Cardinality(DOMAIN statusTimers) <= 1)
    /\ [](statusMessage # Null
          => /\ statusMessage = lastShown.message
             /\ DOMAIN statusTimers = {statusTimerRef}
             /\ statusTimers[statusTimerRef].timeout = lastShown.timeout)
    /\ [][statusMessage # Null /\ statusMessage' = Null
          => lastShown.elapsed = lastShown.timeout]_vars
    /\ (statusMessage # Null /\ lastShown.elapsed > 0)
          ~> (statusMessage = Null \/ lastShown.elapsed = 0)

\* a message that replaced another one on display, with a longer timeout, was
\* cleared when its own timeout had elapsed
C27_Witness ==
    /\ statusMessage = Null
    /\ lastShown.replaced = "File loaded."
    /\ lastShown.message = "Failed to load file."
    /\ lastShown.elapsed = lastShown.timeout
    /\ statusTimers = <<>>
    /\ statusTimerRef = NoTimer

\* C28: when no history fetch is in flight and the effects have run, a list
\* on display is the history of the current history target path.
C28_EntriesMatchTarget ==
    (fetching = EmptyBag /\ Rendered /\ historyEntries # <<>>)
       => historyEntries = HistoryOf(historyTargetPath)

\* a call that names its side, or loads two files
Explicit(op) == op.preferredSide # Null \/ Len(op.sides) = 2

\* C29: a step that starts a call naming its side, or loading two files,
\* leaves the alternation pointer as it is and takes the named slot (for two
\* files the named slot, or the original one, and then the other), whatever
\* the pointer and the flags say; so does every step that resumes such a
\* call, and every setSideContent call; and when a single file given with a
\* side is read, that slot shows it and the other slot is untouched.
C29_ExplicitSideBypassesPointer ==
    [][/\ \A op \in Started :
             Explicit(op)
             => /\ openSlot' = openSlot
                /\ op.sides[1] = (IF op.preferredSide # Null
                                  THEN op.preferredSide ELSE "original")
                /\ Len(op.sides) = 2 => op.sides[2] = Other(op.sides[1])
       /\ returned' # NoCall /\ Explicit(returned') => openSlot' = openSlot
       /\ \A side \in Side, input \in SetInputs :
             SetSideContent(side, input[1], input[2]) => openSlot' = openSlot
       /\ (/\ returned'.preferredSide # Null
           /\ returned'.results = <<"ok">>)
          => /\ path'[returned'.preferredSide] = returned'.paths[1]
             /\ text'[returned'.preferredSide] = Shown(returned'.paths[1])
             /\ path'[Other(returned'.preferredSide)]
                   = path[Other(returned'.preferredSide)]]_vars

\* a file dropped on the modified slot was loaded into it, both slots being
\* occupied and the pointer at the original slot
C29_Witness ==
    /\ returned.kind = "applyPaths"
    /\ returned.preferredSide = "modified"
    /\ returned.results = <<"ok">>
    /\ returned.wasEmpty = <<FALSE>>
    /\ openSlot = "original"
    /\ path["modified"] = returned.paths[1]
    /\ path["original"] \notin {Null, returned.paths[1]}
    /\ pathState["original"]

\* C30: when no load and no dialog is in flight, a slot that has a path is
\* marked occupied.
C30_PathImpliesOccupied ==
    ops = EmptyBag => \A s \in Side : path[s] # Null => pathState[s]

\* the last step ended a call with a failed load, or a dismissed or failed
\* dialog, directed at a slot the call had reserved empty
EndedUnsuccessfully(s) ==
    /\ returned # NoCall
    /\ \A i \in DOMAIN returned.results : returned.results[i] # "pending"
    /\ \E i \in DOMAIN returned.results :
          /\ returned.sides[i] = s
          /\ returned.wasEmpty[i]
          /\ returned.results[i] \in {"fail", "cancelled", "error"}

\* C31: when no load and no dialog is in flight, a slot marked occupied has a
\* path; and right after a call has ended unsuccessfully on a slot it had
\* reserved empty, the slot is marked occupied only if it has a path or
\* another call in flight has it reserved.
C31_NoPhantomOccupancy ==
    \A s \in Side :
       /\ (ops = EmptyBag /\ pathState[s]) => path[s] # Null
       /\ (EndedUnsuccessfully(s) /\ pathState[s])
             => \/ path[s] # Null
                \/ \E op \in InFlight : \E i \in DOMAIN op.sides : op.sides[i] = s

\* nothing is in flight after a dialog on an empty slot was dismissed, and
\* the slot is not marked occupied
C31_Witness ==
    /\ ops = EmptyBag
    /\ returned.kind = "handleOpenFile"
    /\ returned.results = <<"cancelled">>
    /\ returned.wasEmpty = <<TRUE>>
    /\ path[returned.sides[1]] = Null
    /\ ~pathState[returned.sides[1]]

\* the text and path a slot is given by reading a file as it is on disk at
\* the start
FilePairs == {<<replaceLineEndings(decode(FileBytes(p))), p>> : p \in Paths}

\* the text and path a slot can be given by one assignment: what it shows
\* at the start, a file read, or the arguments of a setSideContent call
Assignments(s) ==
    {<<(IF s = "original" THEN initialOriginalText ELSE initialModifiedText), Null>>}
       \cup FilePairs \cup SetInputs

\* the text or the path of the slot changes in this step
Assigned(s) == text'[s] # text[s] \/ path'[s] # path[s]

\* C32: after every step the text and the path of each slot are those of
\* one assignment, a file read or a setSideContent call, and no step changes
\* the text or path of both slots.
C32_PathAndContentPaired ==
    [][/\ \A s \in Side : <<text'[s], path'[s]>> \in Assignments(s)
       /\ ~(Assigned("original") /\ Assigned("modified"))]_vars

\* a file was read into a slot that setSideContent had been called on while
\* the read was under way (the call cleared the flag), and the slot shows the
\* file's text under the file's path
C32_Witness ==
    /\ ops = EmptyBag
    /\ returned.kind = "applyPaths"
    /\ returned.results = <<"ok">>
    /\ returned.wasEmpty = <<TRUE>>
    /\ ~pathState[returned.sides[1]]
    /\ path[returned.sides[1]] = FileA
    /\ text[returned.sides[1]] = Shown(FileA)
    /\ path[Other(returned.sides[1])] = VirtualLabel
    /\ text[Other(returned.sides[1])] = RevisionText

\* the non-empty strings of paths, in their order
NonEmpty(paths) == LET keep(p) == p # "" IN SelectSeq(paths, keep)

\* C33: enqueueOpenPaths appends the non-empty paths it is given to the
\* queue, in order; the firing of the timeout passes the whole queue to one
\* applyPaths call and leaves the queue empty and no timeout pending; no
\* other step changes the queue; and a non-empty queue is eventually
\* flushed.
C33_QueueDelivers ==
    /\ [][/\ \A paths \in Deliveries :
                EnqueueOpenPaths(paths)
                => openQueue' = openQueue \o NonEmpty(paths)
          /\ IsFlush
             => /\ Cardinality(Started) = 1
                /\ \A op \in Started : op.given = openQueue /\ op.source = "open"
                /\ openQueue' = <<>>
                /\ timers' = <<>>
          /\ openQueue' # openQueue
             => \/ IsFlush
                \/ \E paths \in Deliveries : EnqueueOpenPaths(paths)]_vars
    /\ (Len(openQueue) > 0) ~> (openQueue = <<>> /\ openQueueTimer = NoTimer)

\* a flush has passed three paths of three arrivals to one applyPaths call,
\* in arrival order, and left the queue empty with no timeout pending
C33_Witness ==
    /\ openQueue = <<>>
    /\ openQueueTimer = NoTimer
    /\ timers = <<>>
    /\ \E op \in InFlight :
          /\ op.source = "open"
          /\ op.given = <<FileA, FileB, FileA>>
          /\ op.results = <<"pending", "pending">>

\* a step starts an applyPaths call with the paths of the queue
StartsFromQueue ==
    /\ returned' = NoCall
    /\ \E op \in Started : op.source = "open"

\* C34: the unmount leaves the queue empty, no timeout in
\* openQueueTimerRef and no timeout pending, and from then on the queue
\* stays empty, no timeout is set and no step starts an applyPaths call with
\* paths of the queue.
C34_UnmountCleanup ==
    [][/\ Unmount => /\ openQueue' = <<>>
                     /\ openQueueTimer' = NoTimer
                     /\ timers' = <<>>
       /\ ~active => /\ ~StartsFromQueue
                     /\ openQueue' = <<>>
                     /\ timers' = <<>>
                     /\ ~active']_vars

\* App was unmounted with two paths of two arrivals queued and the timeout
\* pending; a full delay has passed since the later arrival, and the queue
\* is empty with no timeout pending and no call in flight
C34_Witness ==
    /\ ~active
    /\ discarded.queue = <<FileA, FileB>>
    /\ discarded.timer # NoTimer
    /\ openQueue = <<>>
    /\ openQueueTimer = NoTimer
    /\ timers = <<>>
    /\ sinceArrival = OpenDelay
    /\ ops = EmptyBag

\* what the comparison call captured when it was made is what the slots
\* and the history source side still are
Current(call) ==
    /\ call.historySourceSide = historySourceSide
    /\ call.workingPath = historyTargetPath
    /\ call.workingText = text[historySourceSide]

\* C35: when the revision of a comparison arrives and nothing has changed
\* the source slot since the call, the original slot shows the revision
\* under its virtual label, the modified slot shows the working file under
\* its real path, both slots are marked occupied and the history source
\* side is "modified".
C35_LayoutAfterComparison ==
    [][\A call \in compares :
          CompareReturned(call, TRUE) /\ Current(call)
          => /\ text'["original"] = RevisionText
             /\ path'["original"] = commitLabel(call.entry)
             /\ isVirtualPath(path'["original"])
             /\ text'["modified"] = call.workingText
             /\ path'["modified"] = call.workingPath
             /\ isFile("modified")'
             /\ pathState'["original"]
             /\ pathState'["modified"]
             /\ historySourceSide' = "modified"]_vars

\* handleCompareCommit returns at one of its three guards
Refused(entry) ==
    \/ entry.deleted
    \/ historyTargetPath = Null
    \/ entry.provider = "git" /\ historyRepoRoot = Null

\* C36: a comparison refused for a deleted entry, for want of a history
\* target path or for want of the repository root of a git entry fetches
\* nothing and sets no loading marker, and a comparison whose revision
\* could not be fetched clears the loading marker and shows the failure
\* status; in both cases the text, the path and the occupied flag of both
\* slots and the history source side stay as they are.
C36_SlotsUntouchedOnRefusal ==
    [][/\ \A entry \in HistoryEntries :
             HandleCompareCommit(entry) /\ Refused(entry)
             => /\ UNCHANGED <<text, path, pathState, historySourceSide>>
                /\ UNCHANGED <<compares, historyLoadingHash>>
       /\ \A call \in compares :
             CompareReturned(call, FALSE)
             => /\ UNCHANGED <<text, path, pathState, historySourceSide>>
                /\ historyLoadingHash' = Null
                /\ status' = [message |-> "Failed to load history content.",
                              loaded |-> 0, large |-> <<>>, timeout |-> 2500]
       ]_vars

\* the revision of the git entry asked for a.txt in the modified slot could
\* not be fetched: the failure status is shown, no marker is set, and the
\* slots are as the opens left them
C36_Witness ==
    /\ status.message = "Failed to load history content."
    /\ historyLoadingHash = Null
    /\ compares = {}
    /\ historySourceSide = "modified"
    /\ historyRepoRoot # Null
    /\ path = [original |-> FileB, modified |-> FileA]
    /\ text = [s \in Side |-> Shown(path[s])]
    /\ pathState = [s \in Side |-> TRUE]

\* the slot of the history source side holds no file while the other does
Mismatch(side) ==
    /\ historySourceSide = side
    /\ ~isFile(side)
    /\ isFile(Other(side))

\* historyTargetPath is null or the real path of the source side's slot
TargetIsSourceFile ==
    \/ historyTargetPath = Null
    \/ /\ historyTargetPath = path[historySourceSide]
       /\ historyTargetPath \in Paths
       /\ ~isVirtualPath(historyTargetPath)

\* C37 as stated: the history target path is null or the real path of the
\* source side's slot; a source side whose slot holds no file while the
\* other slot does is eventually switched; and no step switches the source
\* side when both or neither slot hold a file.
C37_SourceSideFollowsFiles ==
    /\ []TargetIsSourceFile
    /\ \A side \in Side : Mismatch(side) ~> (historySourceSide = Other(side))
    /\ [][historySourceSide' # historySourceSide
          => isFile("original") # isFile("modified")]_vars

\* C37, amended: as above, but the source side is switched in three ways:
\* by the effect, only when the source slot holds no file and the other
\* does; by the Source select, only when both slots hold a file; and by a
\* comparison made from the original side whose revision arrived, which
\* leaves the working file in the modified slot.
C37_SourceSideSwitches ==
    /\ []TargetIsSourceFile
    /\ \A side \in Side : Mismatch(side) ~> (historySourceSide = Other(side))
    /\ [][historySourceSide' # historySourceSide
          => \/ /\ Mismatch(historySourceSide)
                /\ historySourceSide' = Other(historySourceSide)
                /\ UNCHANGED <<text, path, pathState>>
             \/ /\ isFile("original") /\ isFile("modified")
                /\ \E side \in Side : SelectSource(side)
             \/ /\ \E call \in compares :
                      /\ call.historySourceSide = "original"
                      /\ CompareReturned(call, TRUE)
                /\ historySourceSide' = "modified"
                /\ isFile("modified")']_vars

\* a file was loaded into the modified slot while the original slot held
\* none, and the effect has moved the source side to it: the history target
\* is that file
C37_Witness ==
    /\ historySourceSide = "modified"
    /\ path = [original |-> Null, modified |-> FileA]
    /\ historyTargetPath = FileA
    /\ compares = {}
    /\ ops = EmptyBag

\* the list has no more than limit entries, each once
BoundedSet(list, limit) ==
    /\ Len(list) <= limit
    /\ \A i, j \in DOMAIN list : list[i] = list[j] => i = j

\* C38 as stated: the recent files are at most 12 and the recent projects at
\* most 8, neither list has a duplicate, and the path of the latest
\* addRecentFile call is the first of the files and its directory, if it
\* has one, the first of the projects.
C38_RecentsBounded ==
    /\ BoundedSet(recentFiles, 12)
    /\ BoundedSet(recentProjects, 8)
    /\ lastAdded # Null
       => /\ recentFiles # <<>>
          /\ recentFiles[1] = lastAdded
          /\ getDirectoryPath(lastAdded) # Null
             => /\ recentProjects # <<>>
                /\ recentProjects[1] = getDirectoryPath(lastAdded)

\* a step that records a path with addRecentFile
IsAdd == \E p \in RecentInputs : p # "" /\ AddRecentFile(p)

\* C38, amended: the bounds and the absence of duplicates hold always; the
\* path of an addRecentFile call is the first of the files, and its
\* directory, if it has one, the first of the projects, right after the
\* call, and the first entry of a list stays first until the next call
\* or until that list is cleared.
C38_RecentsBoundedUntilCleared ==
    /\ [](BoundedSet(recentFiles, 12) /\ BoundedSet(recentProjects, 8))
    /\ [][/\ IsAdd
             => /\ recentFiles'[1] = lastAdded'
                /\ getDirectoryPath(lastAdded') # Null
                   => recentProjects'[1] = getDirectoryPath(lastAdded')
          /\ ~IsAdd /\ recentFiles # <<>>
             => \/ recentFiles' = <<>> /\ (ClearRecents \/ ClearRecentFiles)
                \/ recentFiles' # <<>> /\ recentFiles'[1] = recentFiles[1]
          /\ ~IsAdd /\ recentProjects # <<>>
             => \/ recentProjects' = <<>> /\ (ClearRecents \/ ClearRecentProjects)
                \/ recentProjects' # <<>>
                   /\ recentProjects'[1] = recentProjects[1]]_vars

\* the twelve files and eight projects an earlier run saved were merged
\* behind a file recorded before they arrived, and a second new file was
\* recorded after: both lists are full, the two new files lead the files
\* and their directories the projects
C38_Witness ==
    /\ recentsLoaded
    /\ Len(recentFiles) = 12
    /\ Len(recentProjects) = 8
    /\ lastAdded = "/p9/f13"
    /\ SubSeq(recentFiles, 1, 3) = <<"/p9/f13", "C:\\a.txt", "/p1/f1">>
    /\ SubSeq(recentProjects, 1, 3) = <<"/p9", "C:\\", "/p1">>

\* a step of handleNavigateDiff in the direction given
Navigates(direction) ==
    \E target \in Side : HandleNavigateDiff(direction, target)

\* C39: the diff index is 0 when there are no changes and between 0 and
\* the number of changes less one otherwise; next from the last change and
\* prev from the first leave it where it is, next and prev elsewhere move it
\* by one, and navigating with no changes alters neither the index nor the
\* changes.
C39_DiffIndexInRange ==
    /\ [](IF diffChanges = 0 THEN diffIndex = 0
          ELSE diffIndex \in 0..(diffChanges - 1))
    /\ [][/\ Navigates("next")
             => diffIndex' = IF diffIndex = diffChanges - 1 \/ diffChanges = 0
                             THEN diffIndex ELSE diffIndex + 1
          /\ Navigates("prev")
             => diffIndex' = IF diffIndex = 0 THEN diffIndex ELSE diffIndex - 1
          /\ (Navigates("next") \/ Navigates("prev")) /\ diffChanges = 0
             => UNCHANGED diff]_vars

\* next was pressed twice with three changes reported, the second change
\* revealed in the original editor: the index is that of the last change
C39_Witness ==
    /\ editorMounted
    /\ diffChanges = 3
    /\ diffIndex = 2
    /\ focusedSide = "original"
    /\ status = NoStatus

====
